---------------------------- MODULE Spec2Model ----------------------------
(***************************************************************************)
(* EMTMetrics: route matching, distance interpolation and arrival          *)
(* prediction (src/emtmetrics/utils/calculations.py and                    *)
(* src/emtmetrics/service/prediction_service.py).                          *)
(*                                                                         *)
(* Numbers.  Python floats are modelled as exact rationals <<n, d>> in     *)
(* lowest terms with d > 0; floating-point rounding is not modelled.       *)
(* Coordinates are in units of 0.001 degree, so that the default           *)
(* tolerance of correct_position (0.001) is 1 unit.  Euclidean norms are   *)
(* kept squared (np.linalg.norm(x) is modelled by its square), and a       *)
(* comparison of norms is the comparison of their squares.                 *)
(***************************************************************************)
EXTENDS Integers, Sequences, FiniteSets, TLC

VARIABLES pc, shape_points, request, frame, outcome

vars == <<pc, shape_points, request, frame, outcome>>

---------------------------------------------------------------------------
(* Bounds of the model *)

\* find_surrounding_distances harness: table length and largest entry
MaxTableLen == 3
MaxDist == 3
\* interpolate_point harness: largest coordinate and largest distance
MaxCoord == 2
MaxInterpDist == 2

\* correct_position harness: grid of vertex and target coordinates, route length
MaxLat == 2
MaxLon == 2
MaxRouteLen == 4

\* prediction service: grid of shape vertices, fixes and target locations,
\* shape length, time between the two fixes, arguments of the operations
SvcMaxLat == 1
SvcMaxLon == 1
SvcMaxRouteLen == 3
MaxTime == 3
MaxSeconds == 2
MaxTargetDistance == 3
\* correct_position on longer routes: route length, on the grid of the service
LongRouteLen == 5
\* The longest prediction time the position endpoint accepts, in seconds
MaxPredictionSeconds == 3600
\* calculate_distance_along_route harness: points a + (k / d) * (b - a) with
\* d <= MaxFractionDen, segment lengths d_ab in -1..MaxSegmentLen
MaxFractionDen == 3
MaxSegmentLen == 2

\* correct_position(max_distance = 0.001), in units of 0.001 degree
DefaultMaxDistance == 1

---------------------------------------------------------------------------
(* Exact rational arithmetic standing for Python float arithmetic *)

Abs(x) == IF x < 0 THEN -x ELSE x

RECURSIVE GCD(_, _)
GCD(a, b) == IF b = 0 THEN a ELSE GCD(b, a % b)

\* The rational n/d in lowest terms with a positive denominator.  No caller
\* divides by zero (each models ZeroDivisionError itself); n/0 is given the
\* value <<sign of n, 0>> only so that Rat is total.
Rat(n, d) ==
    IF d = 1 THEN <<n, 1>>
    ELSE IF d = 0 THEN <<IF n > 0 THEN 1 ELSE IF n < 0 THEN -1 ELSE 0, 0>>
    ELSE LET g == GCD(Abs(n), Abs(d))
             s == IF d < 0 THEN -1 ELSE 1
         IN  <<(s * n) \div g, (s * d) \div g>>

R(k) == <<k, 1>>
RAdd(a, b) == Rat(a[1] * b[2] + b[1] * a[2], a[2] * b[2])
RSub(a, b) == Rat(a[1] * b[2] - b[1] * a[2], a[2] * b[2])
RMul(a, b) == Rat(a[1] * b[1], a[2] * b[2])
\* a / b, for b # 0 only (the callers model ZeroDivisionError themselves)
RDiv(a, b) == Rat(a[1] * b[2], a[2] * b[1])
RLt(a, b) == a[1] * b[2] < b[1] * a[2]
RLe(a, b) == a[1] * b[2] <= b[1] * a[2]
RAbs(a) == <<Abs(a[1]), a[2]>>
RZero == R(0)
RIsZero(a) == a[1] = 0

RECURSIVE SeqsUpTo(_, _)
SeqsUpTo(S, n) ==
    IF n = 0 THEN {<<>>}
    ELSE LET shorter == SeqsUpTo(S, n - 1)
         IN  shorter \cup {Append(s, x) : s \in {t \in shorter : Len(t) = n - 1}, x \in S}

\* Outcome of a call: a returned value, or the exception it raised
Ok(v) == [err |-> "none", val |-> v]
Raise(e) == [err |-> e, val |-> <<>>]
NoOutcome == [err |-> "pending", val |-> <<>>]

---------------------------------------------------------------------------
(* utils/calculations.py: find_surrounding_distances *)

\* bisect.bisect_left(a, x): the loop of the standard library, on 0-based
\* positions lo..hi of the 1-based sequence a
RECURSIVE BisectLoop(_, _, _, _)
BisectLoop(a, x, lo, hi) ==
    IF lo < hi
    THEN LET mid == (lo + hi) \div 2
         IN  IF RLt(a[mid + 1], x)
             THEN BisectLoop(a, x, mid + 1, hi)
             ELSE BisectLoop(a, x, lo, mid)
    ELSE lo

\* bisect.bisect (bisect_right), which the module imports as well
RECURSIVE BisectRightLoop(_, _, _, _)
BisectRightLoop(a, x, lo, hi) ==
    IF lo < hi
    THEN LET mid == (lo + hi) \div 2
         IN  IF RLt(x, a[mid + 1])
             THEN BisectRightLoop(a, x, lo, mid)
             ELSE BisectRightLoop(a, x, mid + 1, hi)
    ELSE lo

bisect_right(a, x) == BisectRightLoop(a, x, 0, Len(a))

bisect_left(a, x) == BisectLoop(a, x, 0, Len(a))

\* Only the lower end of the table is tested
target_out_of_range_lower_only(distances, target) ==
    IF RLt(target, distances[1]) THEN "below" ELSE "within"

\* The range checks on a non-empty table
target_out_of_range(distances, target) ==
    IF RLt(target, distances[1]) THEN "below"
    ELSE IF RLt(distances[Len(distances)], target) THEN "above"
    ELSE "within"

\* distances: sequence of rationals; target: rational.  idx is 0-based as in
\* the code, distances[idx] of the code is distances[idx + 1] here.
find_surrounding_distances(distances, target) ==
    IF distances = <<>>
    THEN Raise("ValueError")
    ELSE LET n == Len(distances)
         IN  IF target_out_of_range(distances, target) # "within"
             THEN Raise("ValueError")
             ELSE LET idx == bisect_left(distances, target)
                  IN  IF idx = 0
                      THEN Ok(<<distances[1], distances[1]>>)
                      \* "distances[idx] == target or idx == n" reads
                      \* distances[idx] first: out of range when idx = n
                      ELSE IF idx = n
                      THEN Raise("IndexError")
                      ELSE IF distances[idx + 1] = target
                      THEN Ok(<<distances[idx],
                                IF idx < n THEN distances[idx + 1] ELSE distances[n]>>)
                      ELSE Ok(<<distances[idx], distances[idx + 1]>>)

---------------------------------------------------------------------------
(* utils/calculations.py: correct_position *)

\* Points are <<lat, lon>> pairs of rationals
Pt(lat, lon) == <<R(lat), R(lon)>>
VSub(p, q) == <<RSub(p[1], q[1]), RSub(p[2], q[2])>>
VAdd(p, q) == <<RAdd(p[1], q[1]), RAdd(p[2], q[2])>>
VScale(t, v) == <<RMul(t, v[1]), RMul(t, v[2])>>
Dot(u, v) == RAdd(RMul(u[1], v[1]), RMul(u[2], v[2]))
\* np.linalg.norm(u), squared
Norm2(u) == Dot(u, u)

RMin(a, b) == IF RLt(b, a) THEN b ELSE a
RMax(a, b) == IF RLt(a, b) THEN b ELSE a

\* tree.query(pos, k=2): the indices (1-based here) of the two vertices
\* nearest to pos, nearest first.  Which of several equidistant vertices the
\* tree reports is not specified: every admissible answer is an element.
\* With a single vertex the second neighbour is reported missing, as the
\* index one past the end.
KDQuery2(route, pos) ==
    LET n == Len(route)
        D == [i \in 1..n |-> Norm2(VSub(pos, route[i]))]
    IN  IF n = 1 THEN {<<1, 2>>}
        ELSE {ij \in (1..n) \X (1..n) :
                /\ ij[1] # ij[2]
                /\ RLe(D[ij[1]], D[ij[2]])
                /\ \A k \in (1..n) \ {ij[1], ij[2]} : RLe(D[ij[2]], D[k])}

\* Only the segment that leaves each of the two vertices
candidate_segments_leaving_only(route, indices) ==
    LET n == Len(route)
        I == {indices[1], indices[2]}
    IN  {<<route[idx], route[idx + 1]>> : idx \in {i \in I : i < n}}

\* The candidate segments of the vertices idx of indices: (route[idx-1],
\* route[idx]) and (route[idx], route[idx+1]) where they exist, as a set of
\* coordinate pairs (list(set(segments)) removes duplicates)
CandidateSegments(route, indices) ==
    LET n == Len(route)
        I == {indices[1], indices[2]}
    IN  {<<route[idx - 1], route[idx]>> : idx \in {i \in I : i > 1}}
        \cup {<<route[idx], route[idx + 1]>> : idx \in {i \in I : i < n}}

\* One pass of the loop body for segment seg: the projected point, its
\* squared distance to pos, and the segment
ProjectOnSegment(seg, pos) ==
    LET p1 == seg[1]
        p2 == seg[2]
        v == VSub(p2, p1)
        w == VSub(pos, p1)
        c == Dot(w, v)
        b == Dot(v, v)
    IN  IF RIsZero(b)
        THEN [point |-> p1, dist2 |-> Norm2(w), segment |-> seg]
        ELSE LET t == RMax(RZero, RMin(R(1), RDiv(c, b)))
                 point_proy == VAdd(p1, VScale(t, v))
             IN  [point |-> point_proy,
                  dist2 |-> Norm2(VSub(pos, point_proy)),
                  segment |-> seg]

\* The loop keeping whichever candidate it visits last
last_visited_candidates(cands) == cands

\* The loop keeps the first candidate whose distance is strictly below the
\* best so far; the iteration order of a set is not specified, so any
\* candidate of minimal distance can be the one kept
BestCandidates(cands) ==
    {c \in cands : \A o \in cands : ~RLt(o.dist2, c.dist2)}

\* The tolerance test with >= for >
CheckToleranceInclusive(best, max_distance) ==
    IF RLe(RMul(max_distance, max_distance), best.dist2)
    THEN Raise("PointNotCloseError")
    ELSE Ok(best)

\* The final tolerance test on the kept candidate
CheckTolerance(best, max_distance) ==
    IF RLt(RMul(max_distance, max_distance), best.dist2)
    THEN Raise("PointNotCloseError")
    ELSE Ok(best)

\* Every outcome correct_position can produce, each with the candidate
\* segments that led to it
correct_position(route, pos, max_distance) ==
    LET n == Len(route)
        Outcomes(ij) ==
            IF ij[1] > n \/ ij[2] > n
            THEN {[segments |-> {}, out |-> Raise("IndexError")]}
            ELSE LET segments == CandidateSegments(route, ij)
                     cands == {ProjectOnSegment(seg, pos) : seg \in segments}
                     bests == BestCandidates(cands)
                 IN  {[segments |-> segments,
                       out |-> CheckTolerance(best, max_distance)] : best \in bests}
    IN  UNION {Outcomes(ij) : ij \in KDQuery2(route, pos)}

---------------------------------------------------------------------------
(* utils/calculations.py: interpolate_point *)

\* The validation with strict comparisons
dist_p_between_strict(dist_a, dist_b, dist_p) ==
    RLt(dist_a, dist_p) /\ RLt(dist_p, dist_b)

\* dist_a <= dist_p <= dist_b
dist_p_between(dist_a, dist_b, dist_p) ==
    RLe(dist_a, dist_p) /\ RLe(dist_p, dist_b)

\* The fraction taken of dist_b, not of the span dist_b - dist_a
interpolation_fraction_of_dist_b(dist_a, dist_b, dist_p) ==
    RDiv(RSub(dist_p, dist_a), dist_b)

interpolation_fraction(dist_a, dist_b, dist_p) ==
    RDiv(RSub(dist_p, dist_a), RSub(dist_b, dist_a))

interpolate_point(lat_a, lon_a, dist_a, lat_b, lon_b, dist_b, dist_p) ==
    IF ~dist_p_between(dist_a, dist_b, dist_p)
    THEN Raise("ValueError")
    ELSE IF dist_a = dist_b
    THEN Ok(<<lat_a, lon_a>>)
    ELSE LET fraction == interpolation_fraction(dist_a, dist_b, dist_p)
             lat_p == RAdd(lat_a, RMul(fraction, RSub(lat_b, lat_a)))
             lon_p == RAdd(lon_a, RMul(fraction, RSub(lon_b, lon_a)))
         IN  Ok(<<lat_p, lon_p>>)

---------------------------------------------------------------------------
(* utils/calculations.py: haversine, calculate_distance_along_route *)

\* The distance of point 2 from the origin, the differences not taken
haversine_of_second_point(lon1, lat1, lon2, lat2) ==
    RAdd(RMul(lat2, lat2), RMul(lon2, lon2))

\* haversine(lon1, lat1, lon2, lat2), squared.  The great-circle distance
\* is modelled by its small-distance planar approximation (the spec's data
\* model assumes it), which is all the callers use: only the quotient of two
\* distances taken from the same point a enters any result.  dlon = lon2 -
\* lon1 and dlat = lat2 - lat1 enter by their squares.
Haversine2(lon1, lat1, lon2, lat2) ==
    LET dlon == RSub(lon2, lon1)
        dlat == RSub(lat2, lat1)
    IN  RAdd(RMul(dlat, dlat), RMul(dlon, dlon))

\* The non-negative integer root of a perfect square
ISqrt(x) == CHOOSE r \in 0..x : r * r = x
\* The root of a rational that is the square of a rational
RSqrt(q) == <<ISqrt(q[1]), ISqrt(q[2])>>

\* What calculate_distance_along_route takes a point argument for: "(longitude,
\* latitude)", index 0 going to haversine's lon and index 1 to its lat
along_route_reads(pt) == [longitude |-> pt[1], latitude |-> pt[2]]

\* The test left out
straight_distance_never_zero(d_ab_straight2) == FALSE

\* d_ab_straight == 0
straight_distance_is_zero(d_ab_straight2) == RIsZero(d_ab_straight2)

\* The distance measured from b instead of a
distance_along_route_from_b(a, b, p, d_ab) ==
    LET d_bp2 == Haversine2(b[1], b[2], p[1], p[2])
        d_ab_straight2 == Haversine2(a[1], a[2], b[1], b[2])
    IN  IF straight_distance_is_zero(d_ab_straight2)
        THEN RZero
        ELSE RMul(RSqrt(RDiv(d_bp2, d_ab_straight2)), d_ab)

\* a, b, p are passed in the order (a[0], a[1]); d_ab is a rational
calculate_distance_along_route(a, b, p, d_ab) ==
    LET d_ap2 == Haversine2(a[1], a[2], p[1], p[2])
        d_ab_straight2 == Haversine2(a[1], a[2], b[1], b[2])
    IN  IF straight_distance_is_zero(d_ab_straight2)
        THEN RZero
        ELSE LET ratio == RSqrt(RDiv(d_ap2, d_ab_straight2))
             IN  RMul(ratio, d_ab)

---------------------------------------------------------------------------
(* libs/mysql_manager.py: the lookups of the relational store.  rows is    *)
(* the content of table shapes for the bus's shape, ordered by             *)
(* shape_pt_sequence: records [lat, lon, dist] of integers.                *)

None == <<>>

\* The lookup answering 0 where it finds no row
dist_traveled_or_zero(rows, lat, lon) ==
    LET hits == {i \in 1..Len(rows) : R(rows[i].lat) = lat /\ R(rows[i].lon) = lon}
    IN  IF hits = {} THEN {RZero} ELSE {R(rows[i].dist) : i \in hits}

\* dist_traveled(shape_id, lat, lon): "LIMIT 1" without an order returns
\* any one of the matching rows, None when there is none.  The tolerance
\* 0.000001 is below the grid unit: a row matches when its coordinates are
\* those asked for.
dist_traveled(rows, lat, lon) ==
    LET hits == {i \in 1..Len(rows) : R(rows[i].lat) = lat /\ R(rows[i].lon) = lon}
    IN  IF hits = {} THEN {None} ELSE {R(rows[i].dist) : i \in hits}

\* get_coordinates(shape_id, dist_traveled): any one row with that distance
get_coordinates(rows, dist) ==
    LET hits == {i \in 1..Len(rows) : R(rows[i].dist) = dist}
    IN  IF hits = {} THEN {None} ELSE {Pt(rows[i].lat, rows[i].lon) : i \in hits}

---------------------------------------------------------------------------
(* service/prediction_service.py: the steps of calculate_average_speed *)

\* Python's seq[i] for i >= 0 and for i < 0
PyIndex(seq, i) == IF i >= 0 THEN seq[i + 1] ELSE seq[Len(seq) + 1 + i]

\* _get_route_data after the two lookups: bus_shape is the shape id or None,
\* rows the result of shape_points
get_route_data(bus_shape, rows) ==
    IF bus_shape = None
    THEN Raise("ValueError")
    ELSE IF rows = <<>>
    THEN Raise("ValueError")
    ELSE Ok([bus_shape |-> bus_shape,
             route_coordinates |-> [i \in 1..Len(rows) |-> Pt(rows[i].lat, rows[i].lon)],
             distance_traveled_list |-> [i \in 1..Len(rows) |-> R(rows[i].dist)]])

\* A history of one fix is taken for enough
extract_position_pair_of_one_fix(bus_positions, first_index, last_index) ==
    IF Len(bus_positions) < 1
    THEN Raise("ValueError")
    ELSE LET first_pos_data == PyIndex(bus_positions, first_index)
             last_pos_data == PyIndex(bus_positions, last_index)
         IN  Ok([first_position |-> Pt(first_pos_data.latitude, first_pos_data.longitude),
                 last_position |-> Pt(last_pos_data.latitude, last_pos_data.longitude),
                 first_timestamp |-> R(first_pos_data.time),
                 last_timestamp |-> R(last_pos_data.time)])

\* _get_bus_positions and _extract_position_pair
extract_position_pair(bus_positions, first_index, last_index) ==
    IF Len(bus_positions) < 2
    THEN Raise("ValueError")
    ELSE LET first_pos_data == PyIndex(bus_positions, first_index)
             last_pos_data == PyIndex(bus_positions, last_index)
         IN  Ok([first_position |-> Pt(first_pos_data.latitude, first_pos_data.longitude),
                 last_position |-> Pt(last_pos_data.latitude, last_pos_data.longitude),
                 first_timestamp |-> R(first_pos_data.time),
                 last_timestamp |-> R(last_pos_data.time)])

\* The tolerance the service passes to correct_position: none, hence the
\* default
ServiceMaxDistance == R(DefaultMaxDistance)

\* _correct_positions: every outcome, with the record of the calls made
correct_positions(route_coordinates, position_pair) ==
    LET firsts == correct_position(route_coordinates, position_pair.first_position,
                                   ServiceMaxDistance)
        lasts == correct_position(route_coordinates, position_pair.last_position,
                                  ServiceMaxDistance)
        Call(pos, o) == [pos |-> pos, max_distance |-> ServiceMaxDistance,
                         segments |-> o.segments, out |-> o.out]
    IN  {[calls |-> <<Call(position_pair.first_position, f)>>, out |-> Raise(f.out.err)] :
            f \in {o \in firsts : o.out.err # "none"}}
        \cup
        {[calls |-> <<Call(position_pair.first_position, f),
                      Call(position_pair.last_position, l)>>,
          out |-> IF l.out.err # "none"
                  THEN Raise(l.out.err)
                  ELSE Ok([first_corrected |-> f.out.val.point,
                           last_corrected |-> l.out.val.point,
                           first_segment |-> f.out.val.segment,
                           last_segment |-> l.out.val.segment])] :
            f \in {o \in firsts : o.out.err = "none"}, l \in lasts}

\* _calculate_segment_distances: the four dist_traveled lookups
segment_distances(rows, cp) ==
    {[first_segment_point_a |-> fa, first_segment_point_b |-> fb,
      last_segment_point_a |-> la, last_segment_point_b |-> lb] :
        fa \in dist_traveled(rows, cp.first_segment[1][1], cp.first_segment[1][2]),
        fb \in dist_traveled(rows, cp.first_segment[2][1], cp.first_segment[2][2]),
        la \in dist_traveled(rows, cp.last_segment[1][1], cp.last_segment[1][2]),
        lb \in dist_traveled(rows, cp.last_segment[2][1], cp.last_segment[2][2])}

\* The points _calculate_absolute_distances passes to
\* calculate_distance_along_route: the ends of the two segments
along_route_segment_ends(cp) ==
    {cp.first_segment[1], cp.first_segment[2], cp.last_segment[1], cp.last_segment[2]}

\* The (shape_pt_lat, shape_pt_lon) arguments of the four dist_traveled
\* lookups of _calculate_segment_distances
dist_traveled_reads(cp) ==
    {[latitude |-> e[1], longitude |-> e[2]] :
        e \in {cp.first_segment[1], cp.first_segment[2],
               cp.last_segment[1], cp.last_segment[2]}}

\* _calculate_absolute_distances (None - None raises TypeError)
calculate_absolute_distances(cp, sd) ==
    IF None \in {sd.first_segment_point_a, sd.first_segment_point_b,
                 sd.last_segment_point_a, sd.last_segment_point_b}
    THEN Raise("TypeError")
    ELSE LET relative_first_distance ==
                 calculate_distance_along_route(cp.first_segment[1], cp.first_segment[2],
                     cp.first_corrected,
                     RSub(sd.first_segment_point_b, sd.first_segment_point_a))
             relative_last_distance ==
                 calculate_distance_along_route(cp.last_segment[1], cp.last_segment[2],
                     cp.last_corrected,
                     RSub(sd.last_segment_point_b, sd.last_segment_point_a))
         IN  Ok([first_point_distance |-> RAdd(relative_first_distance, sd.first_segment_point_a),
                 last_point_distance |-> RAdd(relative_last_distance, sd.last_segment_point_a)])

\* The test with < for <=
invalid_time_elapsed_negative_only(time_elapsed_seconds) ==
    RLt(time_elapsed_seconds, RZero)

\* time_elapsed_seconds <= 0
invalid_time_elapsed(time_elapsed_seconds) ==
    RLe(time_elapsed_seconds, RZero)

\* The signed difference, without abs
signed_distance_between(absolute_distances) ==
    RSub(absolute_distances.last_point_distance, absolute_distances.first_point_distance)

\* abs(last_point_distance - first_point_distance)
distance_between(absolute_distances) ==
    RAbs(RSub(absolute_distances.last_point_distance,
              absolute_distances.first_point_distance))

\* _calculate_travel_metrics
calculate_travel_metrics(absolute_distances, position_pair) ==
    LET distance_traveled == distance_between(absolute_distances)
        time_elapsed_seconds == RSub(position_pair.last_timestamp,
                                     position_pair.first_timestamp)
    IN  IF invalid_time_elapsed(time_elapsed_seconds)
        THEN Raise("ValueError")
        ELSE Ok([distance_traveled |-> distance_traveled,
                 time_elapsed_seconds |-> time_elapsed_seconds,
                 last_timestamp |-> position_pair.last_timestamp,
                 average_speed |-> RDiv(distance_traveled, time_elapsed_seconds)])

---------------------------------------------------------------------------
(* Harness of find_surrounding_distances: every ascending (non-decreasing) *)
(* table of at most MaxTableLen entries, the empty table included, and     *)
(* every target that is a multiple of 1/2 from below 0 to above MaxDist.   *)

IsAscending(s) == \A i \in 1..(Len(s) - 1) : s[i] <= s[i + 1]

RatSeq(s) == [i \in 1..Len(s) |-> R(s[i])]

BracketTables == {RatSeq(s) : s \in {t \in SeqsUpTo(0..MaxDist, MaxTableLen) : IsAscending(t)}}
BracketTargets == {Rat(k, 2) : k \in (-1)..(2 * MaxDist + 1)}

BracketInit ==
    /\ pc = "bracket_call"
    /\ shape_points = <<>>
    /\ request \in [distances : BracketTables, target : BracketTargets]
    /\ frame = <<>>
    /\ outcome = NoOutcome

BracketCall ==
    /\ pc = "bracket_call"
    /\ outcome' = find_surrounding_distances(request.distances, request.target)
    /\ pc' = "bracket_returned"
    /\ UNCHANGED <<shape_points, request, frame>>

SpecBracket == BracketInit /\ [][BracketCall]_vars

---------------------------------------------------------------------------
(* Harness of interpolate_point *)

InterpCoords == {R(k) : k \in 0..MaxCoord}
InterpDists == {Rat(k, 2) : k \in 0..(2 * MaxInterpDist)}

InterpInit ==
    /\ pc = "interp_call"
    /\ shape_points = <<>>
    /\ request \in [lat_a : InterpCoords, lon_a : InterpCoords, dist_a : InterpDists,
                    lat_b : InterpCoords, lon_b : InterpCoords, dist_b : InterpDists,
                    dist_p : InterpDists]
    /\ frame = <<>>
    /\ outcome = NoOutcome

InterpCall ==
    /\ pc = "interp_call"
    /\ outcome' = interpolate_point(request.lat_a, request.lon_a, request.dist_a,
                                    request.lat_b, request.lon_b, request.dist_b,
                                    request.dist_p)
    /\ pc' = "interp_returned"
    /\ UNCHANGED <<shape_points, request, frame>>

SpecInterp == InterpInit /\ [][InterpCall]_vars

---------------------------------------------------------------------------
(* service/prediction_service.py: the calculate_predicted_* operations,    *)
(* from the return of calculate_average_speed on.  avg is the tuple it     *)
(* returned; each operator gives every outcome with the locals computed.   *)

\* The bracket handed over in the other order
interpolate_between_reversed(rows, left_distance, right_distance, dist_p) ==
    {[left_point |-> left_point, right_point |-> right_point,
      out |-> IF left_point = None \/ right_point = None
              THEN Raise("TypeError")
              ELSE interpolate_point(right_point[1], right_point[2], right_distance,
                                     left_point[1], left_point[2], left_distance, dist_p)] :
        left_point \in get_coordinates(rows, left_distance),
        right_point \in get_coordinates(rows, right_distance)}

\* The two get_coordinates lookups and interpolate_point, common to
\* calculate_predicted_position and calculate_predicted_arrival_time_by_distance:
\* each outcome with the two points looked up (float(None[0]) raises TypeError)
interpolate_between(rows, left_distance, right_distance, dist_p) ==
    {[left_point |-> left_point, right_point |-> right_point,
      out |-> IF left_point = None \/ right_point = None
              THEN Raise("TypeError")
              ELSE interpolate_point(left_point[1], left_point[2], left_distance,
                                     right_point[1], right_point[2], right_distance, dist_p)] :
        left_point \in get_coordinates(rows, left_distance),
        right_point \in get_coordinates(rows, right_distance)}

\* The distance covered in prediction_seconds alone, not added to the last
\* known distance
relative_distance_to_next_position(avg, prediction_seconds) ==
    RMul(avg.speed, R(prediction_seconds))

\* absolute_last_point_distance + speed * prediction_seconds
absolute_distance_to_next_position(avg, prediction_seconds) ==
    LET distance_traveled_to_next_position == RMul(avg.speed, R(prediction_seconds))
    IN  RAdd(avg.absolute_last_point_distance, distance_traveled_to_next_position)

calculate_predicted_position(avg, rows, prediction_seconds) ==
    LET target == absolute_distance_to_next_position(avg, prediction_seconds)
        bracket == find_surrounding_distances(avg.distance_traveled_list, target)
        locals == [target |-> target, bracket |-> bracket]
    IN  IF bracket.err # "none"
        THEN {[locals |-> locals, out |-> Raise(bracket.err)]}
        ELSE {[locals |-> [target |-> target, bracket |-> bracket,
                           left_point |-> ib.left_point, right_point |-> ib.right_point],
               out |-> IF ib.out.err # "none"
                       THEN Raise(ib.out.err)
                       ELSE Ok([latitude |-> ib.out.val[1],
                                longitude |-> ib.out.val[2],
                                last_known_distance_traveled |-> avg.absolute_last_point_distance,
                                distance_traveled |-> target,
                                target_arrival_time |-> RAdd(avg.last_timestamp, R(prediction_seconds)),
                                current_speed |-> avg.speed])] :
                ib \in interpolate_between(rows, bracket.val[1], bracket.val[2], target)}

\* The guard as calculate_predicted_arrival_by_coords has it
behind_last_known_point_nested(distance_traveled, absolute_last_point_distance) ==
    /\ RLt(absolute_last_point_distance, distance_traveled)
    /\ RLt(distance_traveled, absolute_last_point_distance)

\* distance_traveled < absolute_last_point_distance
behind_last_known_point(distance_traveled, absolute_last_point_distance) ==
    RLt(distance_traveled, absolute_last_point_distance)

\* No division fails
float_division_never_fails(divisor) == FALSE

\* x / divisor on Python floats raises ZeroDivisionError for a divisor 0,
\* whatever x is (0.0 / 0.0 as well)
float_division_by_zero(divisor) == RIsZero(divisor)

\* The time to cover the whole target distance, not the part left
time_from_route_start(target, avg) ==
    RDiv(target, avg.speed)

\* (distance_traveled - absolute_last_point_distance) / speed
predicted_time_to_target(target, avg) ==
    LET distance_traveled_relative == RSub(target, avg.absolute_last_point_distance)
    IN  RDiv(distance_traveled_relative, avg.speed)

calculate_predicted_arrival_time_by_distance(avg, rows, distance_traveled) ==
    LET target == R(distance_traveled)
        no_bracket == [target |-> target, bracket |-> NoOutcome]
    IN  IF behind_last_known_point(target, avg.absolute_last_point_distance)
        THEN {[locals |-> no_bracket, out |-> Raise("HTTPException400")]}
        ELSE IF float_division_by_zero(avg.speed)
        THEN {[locals |-> no_bracket, out |-> Raise("ZeroDivisionError")]}
        ELSE LET predicted_time == predicted_time_to_target(target, avg)
                 bracket == find_surrounding_distances(avg.distance_traveled_list, target)
                 locals == [target |-> target, bracket |-> bracket]
             IN  IF bracket.err # "none"
                 THEN {[locals |-> locals, out |-> Raise(bracket.err)]}
                 ELSE {[locals |-> [target |-> target, bracket |-> bracket,
                                    left_point |-> ib.left_point,
                                    right_point |-> ib.right_point],
                        out |-> IF ib.out.err # "none"
                                THEN Raise(ib.out.err)
                                ELSE Ok([latitude |-> ib.out.val[1],
                                         longitude |-> ib.out.val[2],
                                         current_speed |-> avg.speed,
                                         predicted_arrival_time |-> RAdd(avg.last_timestamp, predicted_time),
                                         last_known_distance_traveled |-> avg.absolute_last_point_distance,
                                         predicted_time_seconds |-> predicted_time])] :
                         ib \in interpolate_between(rows, bracket.val[1], bracket.val[2], target)}

\* The guard of lines 296-301: the inner test can only hold when the outer
\* one does not, so the raise is never reached
behind_last_point(absolute_point_to_predict_distance, absolute_last_point_distance) ==
    /\ RLt(absolute_last_point_distance, absolute_point_to_predict_distance)
    /\ RLt(absolute_point_to_predict_distance, absolute_last_point_distance)

\* bus_shape2, rows2: what the second _get_route_data call of the operation
\* obtained; rows: the table the dist_traveled lookups for avg.bus_shape read
calculate_predicted_arrival_by_coords(avg, rows, bus_shape2, rows2, location) ==
    LET route_data == get_route_data(bus_shape2, rows2)
        looked_up == IF bus_shape2 = None THEN [bus_shape |-> bus_shape2]
                     ELSE [bus_shape |-> bus_shape2, shape_points |-> rows2]
        no_target == [target |-> None, max_distance |-> None] @@ looked_up
    IN  IF route_data.err # "none"
        THEN {[locals |-> no_target, out |-> Raise(route_data.err)]}
        ELSE UNION {
          IF cp.out.err # "none"
          THEN {[locals |-> [target |-> None, max_distance |-> ServiceMaxDistance]
                            @@ looked_up,
                 out |-> Raise(cp.out.err)]}
          ELSE LET point_to_predict_corrected == cp.out.val.point
                   segment_to_predict == cp.out.val.segment
               IN  {LET projected == [route_data |-> route_data.val,
                                      point_to_predict_corrected |-> point_to_predict_corrected,
                                      segment_to_predict |-> segment_to_predict,
                                      point_a |-> point_a, point_b |-> point_b]
                                     @@ looked_up
                    IN
                    IF point_a = None \/ point_b = None
                    THEN [locals |-> [target |-> None, max_distance |-> ServiceMaxDistance]
                                     @@ projected,
                          out |-> Raise("TypeError")]
                    ELSE LET distance_segment_to_predict == RSub(point_b, point_a)
                             distance_to_predict_relative ==
                                 calculate_distance_along_route(segment_to_predict[1],
                                     segment_to_predict[2], point_to_predict_corrected,
                                     distance_segment_to_predict)
                             target == RAdd(point_a, distance_to_predict_relative)
                             locals == [target |-> target, max_distance |-> ServiceMaxDistance]
                                       @@ projected
                         IN  IF behind_last_point(target, avg.absolute_last_point_distance)
                             THEN [locals |-> locals, out |-> Raise("HTTPException400")]
                             ELSE IF float_division_by_zero(avg.speed)
                             THEN [locals |-> locals, out |-> Raise("ZeroDivisionError")]
                             ELSE LET distance_to_travel == RSub(target, avg.absolute_last_point_distance)
                                      predicted_time == RDiv(distance_to_travel, avg.speed)
                                  IN  [locals |-> locals,
                                       out |-> Ok([current_speed |-> avg.speed,
                                                   predicted_arrival_time |-> RAdd(avg.last_timestamp, predicted_time),
                                                   predicted_time_seconds |-> predicted_time,
                                                   last_known_distance_traveled |-> avg.absolute_last_point_distance,
                                                   target_distance_traveled |-> target])] :
                      point_a \in dist_traveled(rows, segment_to_predict[1][1], segment_to_predict[1][2]),
                      point_b \in dist_traveled(rows, segment_to_predict[2][1], segment_to_predict[2][2])}
          : cp \in correct_position(route_data.val.route_coordinates,
                                    Pt(location[1], location[2]), ServiceMaxDistance)}

---------------------------------------------------------------------------
(* The prediction service at work on one request.  Init draws the content  *)
(* of the relational store for the bus's shape and the fix indices of the  *)
(* call; the fix history is drawn where it is fetched, and the argument of *)
(* the calculate_predicted_* operation where it is first read, after       *)
(* calculate_average_speed returned.                                       *)

\* The vertices of a shape lie on a grid; shape_dist_traveled is the
\* cumulative city-block length of the polyline
ServiceGrid == (0..SvcMaxLat) \X (0..SvcMaxLon)

RECURSIVE ShapeRows(_)
ShapeRows(pts) ==
    IF pts = <<>> THEN <<>>
    ELSE LET n == Len(pts)
             before == ShapeRows(SubSeq(pts, 1, n - 1))
             dist == IF n = 1 THEN 0
                     ELSE before[n - 1].dist + Abs(pts[n][1] - pts[n - 1][1])
                                             + Abs(pts[n][2] - pts[n - 1][2])
         IN  Append(before, [lat |-> pts[n][1], lon |-> pts[n][2], dist |-> dist])

ServiceShapes == {ShapeRows(pts) : pts \in SeqsUpTo(ServiceGrid, SvcMaxRouteLen)}

\* The fix histories the telemetry store may return: at most two fixes
\* (only the first and the last of a history are read), the first taken at
\* time 1, the last at any time 0..MaxTime (before, with or after the first)
Fix(g, t) == [latitude |-> g[1], longitude |-> g[2], time |-> t]
FixLists ==
    {<<>>} \cup {<<Fix(g, 1)>> : g \in ServiceGrid}
    \cup {<<Fix(g, 1), Fix(h, t)>> : g \in ServiceGrid, h \in ServiceGrid, t \in 0..MaxTime}

\* The fix indices of a call: the defaults of the calculate_predicted_*
\* operations, initial_index = 0 and last_index = -1
IndexPairs == {[first_index |-> 0, last_index |-> -1]}

BusShape == <<"shape">>

Init ==
    /\ pc = "get_route_data"
    /\ shape_points \in ServiceShapes
    /\ request \in IndexPairs
    /\ frame = <<>>
    /\ outcome = NoOutcome

\* Another exception raised in place of the one caught
propagate_as_runtime_error(err) == "RuntimeError"

\* except Exception as e: logger.error(...); raise -- the exception caught
\* is the one raised again
propagate(err) == err

\* What one request holds: where it is, the locals of the operation it is
\* in, and what it has returned or raised.  Each ...Steps operator gives the
\* local states one step of a request at l can lead to; rows is the content
\* of table shapes that the request's lookups read.
At(at, fr, out) == [pc |-> at, frame |-> fr, outcome |-> out]

Failed(step, err, fr) ==
    At("done", [failed_in |-> step, raised |-> err] @@ fr, Raise(propagate(err)))

\* _get_route_data: found is what its two lookups may obtain, pairs of a
\* shape id (or None) and the rows of that shape
RouteLookupSteps(l, found) ==
    IF l.pc # "get_route_data" THEN {}
    ELSE {LET r == get_route_data(f.bus_shape, f.rows)
          IN  IF r.err # "none"
              THEN Failed("_get_route_data", r.err,
                          IF f.bus_shape = None THEN [bus_shape |-> f.bus_shape]
                          ELSE [bus_shape |-> f.bus_shape, shape_points |-> f.rows])
              ELSE At("get_bus_positions", [route_data |-> r.val], l.outcome) :
            f \in found}

\* The shape lookup finds the bus's shape or nothing
FoundOrNot(bus_shape, rows) ==
    {[bus_shape |-> b, rows |-> rows] : b \in {bus_shape, None}}

GetRouteDataSteps(l, rows) == RouteLookupSteps(l, FoundOrNot(BusShape, rows))

\* _get_bus_positions, _extract_position_pair; histories is what the
\* telemetry store may return, req the fix indices of the call
GetBusPositionsSteps(l, req, histories) ==
    IF l.pc # "get_bus_positions" THEN {}
    ELSE {LET r == extract_position_pair(bus_positions, req.first_index, req.last_index)
          IN  IF r.err # "none"
              THEN Failed("_get_bus_positions", r.err, [bus_positions |-> bus_positions])
              ELSE At("correct_positions",
                      [route_data |-> l.frame.route_data,
                       bus_positions |-> bus_positions,
                       position_pair |-> r.val],
                      l.outcome) :
            bus_positions \in histories}

\* _correct_positions
CorrectPositionsSteps(l) ==
    IF l.pc # "correct_positions" THEN {}
    ELSE {IF o.out.err # "none"
          THEN Failed("_correct_positions", o.out.err, [calls |-> o.calls])
          ELSE At("segment_distances",
                  [route_data |-> l.frame.route_data,
                   bus_positions |-> l.frame.bus_positions,
                   position_pair |-> l.frame.position_pair,
                   calls |-> o.calls,
                   corrected_positions |-> o.out.val],
                  l.outcome) :
            o \in correct_positions(l.frame.route_data.route_coordinates,
                                    l.frame.position_pair)}

\* _calculate_segment_distances, _calculate_absolute_distances,
\* _calculate_travel_metrics and the return of calculate_average_speed; its
\* locals are kept up to the return and end with the operation that called it
ReturnAverageSpeedSteps(l, rows) ==
    IF l.pc # "segment_distances" THEN {}
    ELSE {LET ad == calculate_absolute_distances(l.frame.corrected_positions, sd)
          IN  IF ad.err # "none"
              THEN Failed("_calculate_absolute_distances", ad.err,
                          [segment_distances |-> sd])
              ELSE LET tm == calculate_travel_metrics(ad.val, l.frame.position_pair)
                   IN  IF tm.err # "none"
                       THEN Failed("_calculate_travel_metrics", tm.err,
                                   [position_pair |-> l.frame.position_pair,
                                    absolute_distances |-> ad.val])
                       ELSE At("average_speed_returned",
                               [route_data |-> l.frame.route_data,
                                bus_positions |-> l.frame.bus_positions,
                                position_pair |-> l.frame.position_pair,
                                corrected_positions |-> l.frame.corrected_positions,
                                segment_distances |-> sd,
                                absolute_distances |-> ad.val,
                                travel_metrics |-> tm.val,
                                avg |-> [speed |-> tm.val.average_speed,
                                         last_timestamp |-> tm.val.last_timestamp,
                                         absolute_last_point_distance |-> ad.val.last_point_distance,
                                         distance_traveled_list |-> l.frame.route_data.distance_traveled_list,
                                         bus_shape |-> l.frame.route_data.bus_shape]],
                               l.outcome) :
            sd \in segment_distances(rows, l.frame.corrected_positions)}

\* The end of a calculate_predicted_* operation
Finish(l, op, arg, o) ==
    At("done",
       [op |-> op, arg |-> arg, avg |-> l.frame.avg, locals |-> o.locals,
        raised |-> o.out.err],
       IF o.out.err = "none" THEN o.out ELSE Raise(propagate(o.out.err)))

PredictPositionSteps(l, rows, seconds) ==
    IF l.pc # "average_speed_returned" THEN {}
    ELSE UNION {{Finish(l, "calculate_predicted_position", <<prediction_seconds>>, o) :
                   o \in calculate_predicted_position(l.frame.avg, rows, prediction_seconds)} :
                prediction_seconds \in seconds}

PredictArrivalByDistanceSteps(l, rows, distances) ==
    IF l.pc # "average_speed_returned" THEN {}
    ELSE UNION {{Finish(l, "calculate_predicted_arrival_time_by_distance",
                        <<distance_traveled>>, o) :
                   o \in calculate_predicted_arrival_time_by_distance(l.frame.avg, rows,
                                                                     distance_traveled)} :
                distance_traveled \in distances}

\* rows: the rows of the shape that calculate_average_speed returned the id
\* of; found: what the second _get_route_data of the operation may obtain
ArrivalByCoordsSteps(l, rows, found, locations) ==
    IF l.pc # "average_speed_returned" THEN {}
    ELSE UNION {{Finish(l, "calculate_predicted_arrival_by_coords", location, o) :
                   o \in calculate_predicted_arrival_by_coords(l.frame.avg, rows,
                                                              f.bus_shape, f.rows, location)} :
                location \in locations, f \in found}

PredictArrivalByCoordsSteps(l, rows, locations) ==
    ArrivalByCoordsSteps(l, rows, FoundOrNot(BusShape, rows), locations)

\* No exception is taken for an HTTPException
is_http_exception_never(err) == FALSE

\* except HTTPException: the only one the service raises is the 400 of a
\* target behind the last known point
is_http_exception(err) == err = "HTTPException400"

\* PositionPredictionResponse(...) as predict_future_position calls it: the
\* call names a current_speed, which the model class has not, and gives no
\* average_speed, which the class declares as Optional[float] without a
\* default.  The field then is None with pydantic 1 and missing, a
\* ValidationError, with pydantic 2; the source pins neither.  (bus_id and
\* message, which do not depend on the result, are left out.)
position_prediction_response(result, prediction_time_seconds) ==
    {Ok([last_known_distance_traveled |-> result.last_known_distance_traveled,
         predicted_location |-> [latitude |-> result.latitude,
                                 longitude |-> result.longitude],
         predicted_distance_traveled |-> result.distance_traveled,
         target_arrival_time |-> result.target_arrival_time,
         target_seconds_to_arrival |-> prediction_time_seconds,
         average_speed |-> None]),
     Raise("ValidationError")}

\* TimePredictionResponse(...) of predict_arrival_time_by_coords
time_prediction_response_by_coords(result, target_location) ==
    {Ok([last_known_distance_traveled |-> result.last_known_distance_traveled,
         target_distance_traveled |-> result.target_distance_traveled,
         target_location |-> [latitude |-> R(target_location[1]),
                              longitude |-> R(target_location[2])],
         predicted_arrival_time |-> result.predicted_arrival_time,
         predicted_seconds_to_arrival |-> result.predicted_time_seconds,
         current_speed |-> result.current_speed])}

\* TimePredictionResponse(...) of predict_arrival_time_by_distance
time_prediction_response_by_distance(result, target_location) ==
    {Ok([last_known_distance_traveled |-> result.last_known_distance_traveled,
         target_location |-> [latitude |-> result.latitude,
                              longitude |-> result.longitude],
         target_distance_traveled |-> R(target_location),
         predicted_arrival_time |-> result.predicted_arrival_time,
         predicted_seconds_to_arrival |-> result.predicted_time_seconds,
         current_speed |-> result.current_speed])}

\* The response an endpoint builds from the result of the operation op
\* called with arg
build_response(op, arg, result) ==
    IF op = "calculate_predicted_position"
    THEN position_prediction_response(result, arg[1])
    ELSE IF op = "calculate_predicted_arrival_by_coords"
    THEN time_prediction_response_by_coords(result, arg)
    ELSE time_prediction_response_by_distance(result, arg[1])

\* The try/except of a prediction endpoint around the service call and the
\* building of the response: the response is returned, an HTTPException is
\* raised again as it is, any other exception becomes an HTTPException with
\* status 500.  built is NoOutcome when the service raised.
endpoint_response(service_outcome, built) ==
    LET raised == IF service_outcome.err # "none" THEN service_outcome.err ELSE built.err
    IN  IF raised = "none"
        THEN Ok(built.val)
        ELSE IF is_http_exception(raised)
        THEN Raise(raised)
        ELSE Raise("HTTPException500")

\* The endpoint answers the client; the service's frame is gone
RespondSteps(l) ==
    IF l.pc # "done" THEN {}
    ELSE {At("responded", [service_outcome |-> l.outcome, built |-> built],
             endpoint_response(l.outcome, built)) :
            built \in IF l.outcome.err # "none" THEN {NoOutcome}
                      ELSE build_response(l.frame.op, l.frame.arg, l.outcome.val)}

\* The request of the single-request specification
Local == At(pc, frame, outcome)

Become(n) ==
    /\ pc' = n.pc
    /\ frame' = n.frame
    /\ outcome' = n.outcome
    /\ UNCHANGED <<shape_points, request>>

GetRouteData == \E n \in GetRouteDataSteps(Local, shape_points) : Become(n)

GetBusPositions == \E n \in GetBusPositionsSteps(Local, request, FixLists) : Become(n)

CorrectPositions == \E n \in CorrectPositionsSteps(Local) : Become(n)

ReturnAverageSpeed == \E n \in ReturnAverageSpeedSteps(Local, shape_points) : Become(n)

PredictPosition ==
    \E n \in PredictPositionSteps(Local, shape_points, 1..MaxSeconds) : Become(n)

PredictArrivalByDistance ==
    \E n \in PredictArrivalByDistanceSteps(Local, shape_points, 0..MaxTargetDistance) :
        Become(n)

PredictArrivalByCoords ==
    \E n \in PredictArrivalByCoordsSteps(Local, shape_points, ServiceGrid) : Become(n)

Respond == \E n \in RespondSteps(Local) : Become(n)

Next ==
    \/ GetRouteData
    \/ GetBusPositions
    \/ CorrectPositions
    \/ ReturnAverageSpeed
    \/ PredictPosition
    \/ PredictArrivalByDistance
    \/ PredictArrivalByCoords
    \/ Respond

Spec == Init /\ [][Next]_vars

---------------------------------------------------------------------------
(* Harness of correct_position: every route of 2..MaxRouteLen vertices on  *)
(* the grid, every target on the grid, the default tolerance               *)

GridPoints == {Pt(lat, lon) : lat \in 0..MaxLat, lon \in 0..MaxLon}
ProjectRoutes == {r \in SeqsUpTo(GridPoints, MaxRouteLen) : Len(r) >= 2}

ProjectInit ==
    /\ pc = "project_call"
    /\ shape_points = <<>>
    /\ request \in [route : ProjectRoutes, pos : GridPoints,
                    max_distance : {R(DefaultMaxDistance)}]
    /\ frame = <<>>
    /\ outcome = NoOutcome

ProjectCall ==
    /\ pc = "project_call"
    /\ \E o \in correct_position(request.route, request.pos, request.max_distance) :
          /\ frame' = [segments |-> o.segments]
          /\ outcome' = o.out
    /\ pc' = "project_returned"
    /\ UNCHANGED <<shape_points, request>>

SpecProject == ProjectInit /\ [][ProjectCall]_vars

\* The same call on the routes of LongRouteLen vertices of the service's
\* grid, where the two nearest vertices can have four segments between them
LongRoutes == {r \in SeqsUpTo({Pt(g[1], g[2]) : g \in ServiceGrid}, LongRouteLen) :
                  Len(r) = LongRouteLen}

LongRouteInit ==
    /\ pc = "project_call"
    /\ shape_points = <<>>
    /\ request \in [route : LongRoutes, pos : {Pt(g[1], g[2]) : g \in ServiceGrid},
                    max_distance : {R(DefaultMaxDistance)}]
    /\ frame = <<>>
    /\ outcome = NoOutcome

SpecCandidates == (ProjectInit \/ LongRouteInit) /\ [][ProjectCall]_vars

---------------------------------------------------------------------------
(* Harness of calculate_distance_along_route: a and b on the grid, p on    *)
(* the segment from a to b, every d_ab in -1..MaxSegmentLen                *)

AlongFractions == UNION {{Rat(k, d) : k \in 0..d} : d \in 1..MaxFractionDen}

AlongInit ==
    /\ pc = "along_call"
    /\ shape_points = <<>>
    /\ request \in {[a |-> a, b |-> b, t |-> t,
                     p |-> VAdd(a, VScale(t, VSub(b, a))), d_ab |-> R(d)] :
                       a \in GridPoints, b \in GridPoints, t \in AlongFractions,
                       d \in (-1)..MaxSegmentLen}
    /\ frame = <<>>
    /\ outcome = NoOutcome

AlongCall ==
    /\ pc = "along_call"
    /\ outcome' = Ok(calculate_distance_along_route(request.a, request.b, request.p,
                                                    request.d_ab))
    /\ pc' = "along_returned"
    /\ UNCHANGED <<shape_points, request, frame>>

SpecAlong == AlongInit /\ [][AlongCall]_vars

---------------------------------------------------------------------------
(* Harness of haversine: both orders of every pair of grid points, and a   *)
(* point with itself                                                       *)

HaversineInit ==
    /\ pc = "haversine_call"
    /\ shape_points = <<>>
    /\ request \in [a : GridPoints, b : GridPoints]
    /\ frame = <<>>
    /\ outcome = NoOutcome

HaversineCall ==
    /\ pc = "haversine_call"
    /\ LET a == request.a
           b == request.b
       IN  outcome' = Ok([ab |-> Haversine2(a[1], a[2], b[1], b[2]),
                          ba |-> Haversine2(b[1], b[2], a[1], a[2]),
                          aa |-> Haversine2(a[1], a[2], a[1], a[2])])
    /\ pc' = "haversine_returned"
    /\ UNCHANGED <<shape_points, request, frame>>

SpecHaversine == HaversineInit /\ [][HaversineCall]_vars

---------------------------------------------------------------------------
(* The distance along a segment is checked on the service and on the       *)
(* harness of calculate_distance_along_route together; degenerate geometry *)
(* on the harnesses of the three functions that meet it                    *)

SpecDistance == (Init \/ AlongInit) /\ [][Next \/ AlongCall]_vars

SpecDegenerate ==
    (ProjectInit \/ AlongInit \/ InterpInit) /\ [][ProjectCall \/ AlongCall \/ InterpCall]_vars

---------------------------------------------------------------------------
(* Two requests on the one PredictionService of app.py.  Each variable     *)
(* holds a pair, one component per request: shape_points the rows of the   *)
(* request's bus, request the call (fix indices, the fix history of the    *)
(* bus, the operation and its argument), pc, frame and outcome the         *)
(* request's own.  A step is one step of one request; the requests         *)
(* interleave in every order.                                              *)

Requests == {1, 2}

ConcurrentShapes ==
    {ShapeRows(<<<<0, 0>>, <<0, 1>>>>), ShapeRows(<<<<0, 0>>, <<1, 0>>, <<1, 1>>>>)}

ConcurrentHistories ==
    {<<>>,
     <<Fix(<<0, 0>>, 1), Fix(<<0, 0>>, 2)>>,
     <<Fix(<<0, 0>>, 1), Fix(<<0, 1>>, 2)>>}

ConcurrentCalls ==
    {[op |-> "calculate_predicted_position", arg |-> 1],
     [op |-> "calculate_predicted_arrival_time_by_distance", arg |-> 1],
     [op |-> "calculate_predicted_arrival_by_coords", arg |-> <<0, 1>>]}

ConcurrentRequests ==
    {[first_index |-> ip.first_index, last_index |-> ip.last_index,
      bus_positions |-> h, op |-> c.op, arg |-> c.arg] :
        ip \in IndexPairs, h \in ConcurrentHistories, c \in ConcurrentCalls}

\* The rows of the other request, as a field of the shared service that
\* the last request to arrive had overwritten would give them
rows_left_by_other(r) == shape_points[3 - r]

\* The rows request r reads: every lookup is made with the bus_id, the
\* shape id and the coordinates that are arguments and locals of the
\* request's own call; PredictionService has no field but its two managers
rows_read_by(r) == shape_points[r]

\* Every step a request at l can take
RequestSteps(l, rows, req) ==
    GetRouteDataSteps(l, rows)
    \cup GetBusPositionsSteps(l, req, {req.bus_positions})
    \cup CorrectPositionsSteps(l)
    \cup ReturnAverageSpeedSteps(l, rows)
    \cup (IF req.op = "calculate_predicted_position"
          THEN PredictPositionSteps(l, rows, {req.arg})
          ELSE IF req.op = "calculate_predicted_arrival_time_by_distance"
          THEN PredictArrivalByDistanceSteps(l, rows, {req.arg})
          ELSE PredictArrivalByCoordsSteps(l, rows, {req.arg}))
    \cup RespondSteps(l)

LocalOf(r) == At(pc[r], frame[r], outcome[r])

ConcurrentInit ==
    /\ pc = [r \in Requests |-> "get_route_data"]
    /\ shape_points \in [Requests -> ConcurrentShapes]
    /\ request \in [Requests -> ConcurrentRequests]
    /\ frame = [r \in Requests |-> <<>>]
    /\ outcome = [r \in Requests |-> NoOutcome]

RequestStep ==
    \E r \in Requests :
       \E n \in RequestSteps(LocalOf(r), rows_read_by(r), request[r]) :
          /\ pc' = [pc EXCEPT ![r] = n.pc]
          /\ frame' = [frame EXCEPT ![r] = n.frame]
          /\ outcome' = [outcome EXCEPT ![r] = n.outcome]
          /\ UNCHANGED <<shape_points, request>>

SpecConcurrent == ConcurrentInit /\ [][RequestStep]_vars

---------------------------------------------------------------------------
(* Lookups that fail.  Every lookup of MySQLManager answers a database     *)
(* error as it answers a query without rows: shape_points with [],         *)
(* dist_traveled and get_coordinates with None.  A lookup that fails is    *)
(* modelled by its rows being out of the request's reach from then on: the *)
(* table the request reads loses rows between two of its steps.  (The      *)
(* shape lookup finding nothing and a fix history without two fixes are    *)
(* drawn in the steps themselves.)                                         *)

RECURSIVE SubTables(_)
SubTables(rows) ==
    IF rows = <<>> THEN {<<>>}
    ELSE LET rest == SubTables(Tail(rows))
         IN  rest \cup {<<Head(rows)>> \o t : t \in rest}

LoseRows ==
    /\ pc \notin {"done", "responded"}
    /\ shape_points' \in SubTables(shape_points) \ {shape_points}
    /\ UNCHANGED <<pc, request, frame, outcome>>

SpecLookups == Init /\ [][Next \/ LoseRows]_vars

---------------------------------------------------------------------------
(* A bus that changes line or direction during a request.  get_bus_shape   *)
(* asks the telemetry store for the bus's line and direction on each call  *)
(* and the relational store for the shape of that line and direction.      *)
(* Here shape_points holds the rows of each shape, by shape id, and        *)
(* request.reports the id of the shape of the line and direction that the  *)
(* bus reports at the moment.                                              *)

OtherShape == <<"other shape">>
ShapeIds == {BusShape, OtherShape}

RerouteShapes ==
    {ShapeRows(<<<<0, 0>>, <<0, 1>>, <<1, 1>>>>),
     ShapeRows(<<<<1, 1>>, <<0, 1>>, <<0, 0>>>>),
     ShapeRows(<<<<1, 1>>, <<1, 0>>>>)}

RerouteInit ==
    /\ pc = "get_route_data"
    /\ shape_points \in [ShapeIds -> RerouteShapes]
    /\ request \in {[first_index |-> ip.first_index, last_index |-> ip.last_index,
                     reports |-> id] : ip \in IndexPairs, id \in ShapeIds}
    /\ frame = <<>>
    /\ outcome = NoOutcome

\* The bus starts to report another line or direction
Reroute ==
    /\ pc \notin {"done", "responded"}
    /\ \E id \in ShapeIds \ {request.reports} :
          request' = [request EXCEPT !.reports = id]
    /\ UNCHANGED <<pc, shape_points, frame, outcome>>

\* What _get_route_data obtains now
ReportedNow == {[bus_shape |-> request.reports, rows |-> shape_points[request.reports]]}

\* The rows of the shape whose id calculate_average_speed holds, those the
\* dist_traveled and get_coordinates lookups read
RowsOf(bus_shape) == shape_points[bus_shape]

RerouteStep ==
    \E n \in RouteLookupSteps(Local, ReportedNow)
            \cup GetBusPositionsSteps(Local, request, FixLists)
            \cup CorrectPositionsSteps(Local)
            \cup (IF pc = "segment_distances"
                  THEN ReturnAverageSpeedSteps(Local, RowsOf(frame.route_data.bus_shape))
                  ELSE {})
            \cup (IF pc = "average_speed_returned"
                  THEN ArrivalByCoordsSteps(Local, RowsOf(frame.avg.bus_shape), ReportedNow,
                                            ServiceGrid)
                  ELSE {})
            \cup RespondSteps(Local) :
        Become(n)

SpecReroute == RerouteInit /\ [][RerouteStep \/ Reroute]_vars

---------------------------------------------------------------------------
\* The prediction endpoints: each validates its request, calls its service
\* operation and builds the response.  A bus_id is the sequence of its
\* characters.

\* "buses:"
BusIdPrefix == <<"b", "u", "s", "e", "s", ":">>

\* str.startswith
startswith(s, prefix) ==
    Len(s) >= Len(prefix) /\ SubSeq(s, 1, Len(prefix)) = prefix

\* No bus_id is refused
any_bus_id_accepted(bus_id) == FALSE

\* if not request.bus_id.startswith("buses:")
invalid_bus_id(bus_id) == ~startswith(bus_id, BusIdPrefix)

\* No prediction time is refused
any_prediction_time_accepted(prediction_time_seconds) == FALSE

\* if request.prediction_time_seconds <= 0 or request.prediction_time_seconds > 3600
invalid_prediction_time(prediction_time_seconds) ==
    prediction_time_seconds <= 0 \/ prediction_time_seconds > MaxPredictionSeconds

\* "buses:1", "bus:1", "Buses:1" and the empty string
ApiBusIds ==
    {BusIdPrefix \o <<"1">>, <<"b", "u", "s", ":", "1">>,
     <<"B", "u", "s", "e", "s", ":", "1">>, <<>>}

ApiSeconds ==
    {-1, 0} \cup (1..MaxSeconds) \cup {MaxPredictionSeconds, MaxPredictionSeconds + 1}

\* The requests the endpoints receive; arg is what the endpoint hands to the
\* service after the bus_id
ApiRequests ==
    {[first_index |-> i.first_index, last_index |-> i.last_index,
      endpoint |-> c.endpoint, bus_id |-> bus_id, arg |-> c.arg] :
        i \in IndexPairs, bus_id \in ApiBusIds,
        c \in {[endpoint |-> "predict_future_position", arg |-> <<x>>] : x \in ApiSeconds}
           \cup {[endpoint |-> "predict_arrival_time_by_coords", arg |-> g] :
                    g \in ServiceGrid}
           \cup {[endpoint |-> "predict_arrival_time_by_distance", arg |-> <<x>>] :
                    x \in 0..MaxTargetDistance}
           \cup {[endpoint |-> "predict_arrival_time_by_stop", arg |-> <<x>>] :
                    x \in {1}}}

ApiInit ==
    /\ pc = "endpoint_called"
    /\ shape_points \in ServiceShapes
    /\ request \in ApiRequests
    /\ frame = <<>>
    /\ outcome = NoOutcome

\* The checks an endpoint makes before it calls the service: a refused
\* request raises HTTPException(400) inside the endpoint's try, and the
\* endpoint answers at once; an accepted one enters the service operation.
ValidateSteps(l, req) ==
    IF l.pc # "endpoint_called" THEN {}
    ELSE IF invalid_bus_id(req.bus_id)
    THEN {At("responded", [rejected |-> "bus_id"],
             endpoint_response(Raise("HTTPException400"), NoOutcome))}
    ELSE IF /\ req.endpoint = "predict_future_position"
            /\ invalid_prediction_time(req.arg[1])
    THEN {At("responded", [rejected |-> "prediction_time_seconds"],
             endpoint_response(Raise("HTTPException400"), NoOutcome))}
    ELSE IF req.endpoint = "predict_arrival_time_by_stop"
    THEN {At("get_stops", <<>>, NoOutcome)}
    ELSE {At("get_route_data", <<>>, NoOutcome)}

\* calculate_predicted_arrival_time_by_stop: after the lookups of the bus's
\* line and shape it calls get_stops_for_line_and_direction without its two
\* arguments, a TypeError, which it raises again
ArrivalByStopSteps(l, req) ==
    IF l.pc # "get_stops" THEN {}
    ELSE {At("done",
             [op |-> "calculate_predicted_arrival_time_by_stop", arg |-> req.arg,
              raised |-> "TypeError"],
             Raise(propagate("TypeError")))}

\* The service operation the endpoint of the request calls, with the
\* argument of the request
EndpointSteps(l, rows, req) ==
    IF req.endpoint = "predict_future_position"
    THEN PredictPositionSteps(l, rows, {req.arg[1]})
    ELSE IF req.endpoint = "predict_arrival_time_by_coords"
    THEN PredictArrivalByCoordsSteps(l, rows, {req.arg})
    ELSE IF req.endpoint = "predict_arrival_time_by_distance"
    THEN PredictArrivalByDistanceSteps(l, rows, {req.arg[1]})
    ELSE ArrivalByStopSteps(l, req)

Validate == \E n \in ValidateSteps(Local, request) : Become(n)

CallService == \E n \in EndpointSteps(Local, shape_points, request) : Become(n)

ApiNext ==
    \/ Validate
    \/ GetRouteData
    \/ GetBusPositions
    \/ CorrectPositions
    \/ ReturnAverageSpeed
    \/ CallService
    \/ Respond

SpecApi == ApiInit /\ [][ApiNext]_vars

---------------------------------------------------------------------------
(* Range rejection is checked on the service and on the harness of         *)
(* find_surrounding_distances together                                     *)

SpecRange == (Init \/ BracketInit) /\ [][Next \/ BracketCall]_vars

---------------------------------------------------------------------------
(* The claims *)

\* A calculate_predicted_* operation op has ended
Finished(op) == pc = "done" /\ "op" \in DOMAIN frame /\ frame.op = op

ByDistance == "calculate_predicted_arrival_time_by_distance"
ByCoords == "calculate_predicted_arrival_by_coords"
Position == "calculate_predicted_position"

\* C1: calculate_predicted_arrival_time_by_distance with a target distance
\* below the last known absolute distance ends with the HTTP 400 exception,
\* and no result it returns has a negative predicted_time_seconds.
C1_BehindByDistanceRejected ==
    Finished(ByDistance) =>
        /\ RLt(R(frame.arg[1]), frame.avg.absolute_last_point_distance)
              => outcome.err = "HTTPException400"
        /\ outcome.err = "none" => ~RLt(outcome.val.predicted_time_seconds, RZero)

C1_Witness ==
    /\ Finished(ByDistance)
    /\ RLt(R(frame.arg[1]), frame.avg.absolute_last_point_distance)
    /\ ~RIsZero(frame.avg.speed)
    /\ outcome.err = "HTTPException400"

\* C2: calculate_predicted_arrival_by_coords ends with the HTTP 400
\* exception whenever the absolute distance of the projected target is
\* below the last known absolute distance, and no result it returns has a
\* negative predicted_time_seconds or a predicted_arrival_time before the
\* last fix's timestamp.
C2_BehindByCoordsRejected ==
    (Finished(ByCoords) /\ frame.locals.target # None) =>
        /\ RLt(frame.locals.target, frame.avg.absolute_last_point_distance)
              => outcome.err = "HTTPException400"
        /\ outcome.err = "none" =>
              /\ ~RLt(outcome.val.predicted_time_seconds, RZero)
              /\ ~RLt(outcome.val.predicted_arrival_time, frame.avg.last_timestamp)

\* The candidates of a recorded correct_position call
CallCandidates(c) == {ProjectOnSegment(seg, c.pos) : seg \in c.segments}

CallRespectsTolerance(c) ==
    LET cands == CallCandidates(c)
        max2 == RMul(c.max_distance, c.max_distance)
    IN  /\ c.out.err = "PointNotCloseError"
              <=> (cands # {} /\ \A k \in cands : RLt(max2, k.dist2))
        /\ (\E k \in cands : RLe(k.dist2, max2)) =>
              /\ c.out.err = "none"
              /\ c.out.val \in cands
              /\ \A k \in cands : RLe(c.out.val.dist2, k.dist2)

\* C3: every correct_position call of the service raises
\* PointNotCloseError exactly when the least candidate distance is strictly
\* above max_distance and otherwise returns the (point, distance, segment)
\* of a least candidate; the service always passes the default tolerance.
C3_ToleranceTest ==
    /\ "calls" \in DOMAIN frame =>
          \A i \in DOMAIN frame.calls :
              /\ frame.calls[i].max_distance = R(DefaultMaxDistance)
              /\ CallRespectsTolerance(frame.calls[i])
    /\ (Finished(ByCoords) /\ frame.locals.max_distance # None) =>
          frame.locals.max_distance = R(DefaultMaxDistance)

\* The first fix is accepted at exactly the tolerance, the last is rejected
C3_Witness ==
    /\ "calls" \in DOMAIN frame
    /\ Len(frame.calls) = 2
    /\ frame.calls[1].out.err = "none"
    /\ frame.calls[1].out.val.dist2 = R(DefaultMaxDistance * DefaultMaxDistance)
    /\ frame.calls[2].out.err = "PointNotCloseError"

\* Squared distance from the target of the harness to segment k of its route
SegmentDist2(k) ==
    ProjectOnSegment(<<request.route[k], request.route[k + 1]>>, request.pos).dist2

\* C4: a target lying exactly on some segment of the route is returned
\* unchanged with distance 0.
C4_RoundTrip ==
    (/\ pc = "project_returned"
     /\ \E k \in 1..(Len(request.route) - 1) : RIsZero(SegmentDist2(k)))
    => /\ outcome.err = "none"
       /\ outcome.val.point = request.pos
       /\ RIsZero(outcome.val.dist2)

\* C5: no point of any segment of the route is strictly closer to the
\* target than the point correct_position returns.
C5_NearestOnWholeRoute ==
    (pc = "project_returned" /\ outcome.err = "none") =>
        \A k \in 1..(Len(request.route) - 1) : ~RLt(SegmentDist2(k), outcome.val.dist2)

\* C6: the step that computes the travel metrics, entered with an elapsed
\* time <= 0, ends the request with ValueError and leaves no TravelMetrics
\* and no speed; every TravelMetrics has a positive elapsed time.
ElapsedOf(pp) == RSub(pp.last_timestamp, pp.first_timestamp)

C6_NoMetrics(f) == "travel_metrics" \notin DOMAIN f /\ "avg" \notin DOMAIN f

C6_InvalidIntervalStep ==
    (pc = "segment_distances" /\ RLe(ElapsedOf(frame.position_pair), RZero)) =>
        /\ pc' = "done"
        /\ outcome'.err \in {"ValueError", "TypeError"}
        /\ C6_NoMetrics(frame')

C6_InvalidIntervalState ==
    /\ ("failed_in" \in DOMAIN frame /\ frame.failed_in = "_calculate_travel_metrics") =>
          /\ outcome.err = "ValueError"
          /\ RLe(ElapsedOf(frame.position_pair), RZero)
          /\ C6_NoMetrics(frame)
    /\ "travel_metrics" \in DOMAIN frame =>
          RLt(RZero, frame.travel_metrics.time_elapsed_seconds)

C6_InvalidInterval == []C6_InvalidIntervalState /\ [][C6_InvalidIntervalStep]_vars

C6_Witness ==
    /\ "failed_in" \in DOMAIN frame
    /\ frame.failed_in = "_calculate_travel_metrics"
    /\ RIsZero(ElapsedOf(frame.position_pair))
    /\ outcome.err = "ValueError"

\* target lies outside [first, last] of the non-empty table
OutsideTable(table, target) ==
    RLt(target, table[1]) \/ RLt(table[Len(table)], target)

\* C7: find_surrounding_distances raises ValueError for an empty table and
\* for a target below the first or above the last entry; hence
\* calculate_predicted_position and
\* calculate_predicted_arrival_time_by_distance return no prediction for a
\* target distance outside the route's distance table.
C7_OutOfRangeRejected ==
    /\ (/\ pc = "bracket_returned"
        /\ \/ request.distances = <<>>
           \/ OutsideTable(request.distances, request.target))
       => outcome.err = "ValueError"
    /\ (/\ Finished(Position)
        /\ OutsideTable(frame.avg.distance_traveled_list, frame.locals.target))
       => outcome.err = "ValueError"
    /\ (/\ Finished(ByDistance)
        /\ OutsideTable(frame.avg.distance_traveled_list, frame.locals.target))
       => outcome.err \in {"ValueError", "HTTPException400", "ZeroDivisionError"}

C7_Witness ==
    /\ Finished(ByDistance)
    /\ RLt(frame.avg.distance_traveled_list[Len(frame.avg.distance_traveled_list)],
           frame.locals.target)
    /\ outcome.err = "ValueError"

\* The harness call returned for a non-empty table and a target within it
BracketInRange ==
    /\ pc = "bracket_returned"
    /\ request.distances # <<>>
    /\ ~OutsideTable(request.distances, request.target)

\* left <= target <= right, the pair being two adjacent entries, or twice
\* the first entry when the target equals it
BracketsTarget(table, target, pair) ==
    /\ RLe(pair[1], target) /\ RLe(target, pair[2])
    /\ IF target = table[1]
       THEN pair = <<table[1], table[1]>>
       ELSE \E j \in 1..(Len(table) - 1) : pair = <<table[j], table[j + 1]>>
    /\ pair = <<table[1], table[1]>> => target = table[1]

\* C8 as stated: for every index i > 0 (here i > 1) holding the target the
\* pair is (table[i-1], table[i]).
C8_BracketAtEveryIndex ==
    BracketInRange =>
        /\ outcome.err = "none"
        /\ BracketsTarget(request.distances, request.target, outcome.val)
        /\ \A i \in 2..Len(request.distances) :
              request.distances[i] = request.target =>
                  outcome.val = <<request.distances[i - 1], request.distances[i]>>

\* C8, amended: for a non-empty ascending table and a target within it,
\* find_surrounding_distances returns adjacent entries (left, right) with
\* left <= target <= right; when the target equals an entry and i > 0 is the
\* lowest index holding that value, the pair is (table[i-1], table[i]); the
\* pair is (table[0], table[0]) only when the target equals the first entry.
C8_BracketAtLowestIndex ==
    BracketInRange =>
        /\ outcome.err = "none"
        /\ BracketsTarget(request.distances, request.target, outcome.val)
        /\ \A i \in 2..Len(request.distances) :
              (/\ request.distances[i] = request.target
               /\ \A j \in 1..(i - 1) : request.distances[j] # request.target)
              => outcome.val = <<request.distances[i - 1], request.distances[i]>>

\* The target equals a repeated entry whose lowest index is not the first
C8_Witness ==
    /\ BracketInRange
    /\ Len(request.distances) = 3
    /\ request.distances[2] = request.target
    /\ request.distances[3] = request.target
    /\ request.distances[1] # request.target
    /\ outcome.val = <<request.distances[1], request.distances[2]>>

\* C9: interpolate_point raises ValueError exactly when dist_p is not within
\* [dist_a, dist_b] (always when dist_a > dist_b), and returns a point in
\* every other case.
C9_OutOfRangeExactly ==
    pc = "interp_returned" =>
        LET inside == RLe(request.dist_a, request.dist_p) /\ RLe(request.dist_p, request.dist_b)
        IN  /\ outcome.err = "ValueError" <=> ~inside
            /\ inside => (outcome.err = "none" /\ Len(outcome.val) = 2)
            /\ RLt(request.dist_b, request.dist_a) => outcome.err = "ValueError"

C9_Witness ==
    /\ pc = "interp_returned"
    /\ request.dist_p = request.dist_b
    /\ RLt(request.dist_a, request.dist_b)
    /\ outcome.err = "none"

\* x lies between a and b, in either order
Between(a, x, b) == (RLe(a, x) /\ RLe(x, b)) \/ (RLe(b, x) /\ RLe(x, a))

\* C10: interpolate_point(A, d, B, d, d) = A; for dA < dB it returns A at
\* dist_p = dA, B at dist_p = dB, and A + ((dist_p - dA) / (dB - dA)) * (B - A)
\* in between, each coordinate between those of A and B.
C10_InterpolationValues ==
    (pc = "interp_returned" /\ outcome.err = "none") =>
        LET A == <<request.lat_a, request.lon_a>>
            B == <<request.lat_b, request.lon_b>>
            dA == request.dist_a
            dB == request.dist_b
            dP == request.dist_p
            f == RDiv(RSub(dP, dA), RSub(dB, dA))
        IN  /\ dA = dB => outcome.val = A
            /\ (RLt(dA, dB) /\ dP = dA) => outcome.val = A
            /\ (RLt(dA, dB) /\ dP = dB) => outcome.val = B
            /\ (RLt(dA, dP) /\ RLt(dP, dB)) =>
                  /\ outcome.val = VAdd(A, VScale(f, VSub(B, A)))
                  /\ Between(A[1], outcome.val[1], B[1])
                  /\ Between(A[2], outcome.val[2], B[2])

C10_Witness ==
    /\ pc = "interp_returned"
    /\ outcome.err = "none"
    /\ RLt(request.dist_a, request.dist_p)
    /\ RLt(request.dist_p, request.dist_b)
    /\ request.lat_a # request.lat_b
    /\ outcome.val[1] # request.lat_a
    /\ outcome.val[1] # request.lat_b

\* The point at route distance dist_p on the straight line from A at
\* distance left to B at distance right
PointAtDistance(A, left, B, right, dist_p) ==
    IF left = right THEN A
    ELSE VAdd(A, VScale(RDiv(RSub(dist_p, left), RSub(right, left)), VSub(B, A)))

\* C11: the speed calculate_average_speed returns is |d_last - d_first| / e
\* for the absolute distances of the two fixes and their elapsed time
\* e > 0; calculate_predicted_position for s seconds takes the target
\* distance d_last + speed * s, brackets it by two adjacent table entries
\* and returns the point interpolated between the vertices of these entries.
C11_SpeedAndExtrapolation ==
    /\ pc = "average_speed_returned" =>
          LET e == ElapsedOf(frame.position_pair)
              d_first == frame.absolute_distances.first_point_distance
              d_last == frame.absolute_distances.last_point_distance
          IN  /\ RLt(RZero, e)
              /\ frame.avg.speed = RDiv(RAbs(RSub(d_last, d_first)), e)
              /\ frame.avg.absolute_last_point_distance = d_last
    /\ Finished(Position) =>
          LET s == R(frame.arg[1])
              target == RAdd(frame.avg.absolute_last_point_distance, RMul(frame.avg.speed, s))
              table == frame.avg.distance_traveled_list
              bracket == frame.locals.bracket
          IN  /\ frame.locals.target = target
              /\ ~OutsideTable(table, target) =>
                    /\ bracket.err = "none"
                    /\ BracketsTarget(table, target, bracket.val)
                    /\ outcome.err = "none"
              /\ outcome.err = "none" =>
                    /\ outcome.val.distance_traveled = target
                    /\ \E i, j \in 1..Len(shape_points) :
                          /\ R(shape_points[i].dist) = bracket.val[1]
                          /\ R(shape_points[j].dist) = bracket.val[2]
                          /\ <<outcome.val.latitude, outcome.val.longitude>> =
                                PointAtDistance(Pt(shape_points[i].lat, shape_points[i].lon),
                                                bracket.val[1],
                                                Pt(shape_points[j].lat, shape_points[j].lon),
                                                bracket.val[2], target)

\* A moving bus, a target strictly inside a segment of the table
C11_Witness ==
    /\ Finished(Position)
    /\ outcome.err = "none"
    /\ RLt(RZero, frame.avg.speed)
    /\ RLt(frame.locals.bracket.val[1], frame.locals.target)
    /\ RLt(frame.locals.target, frame.locals.bracket.val[2])
    /\ <<outcome.val.latitude, outcome.val.longitude>> \notin
          {Pt(shape_points[i].lat, shape_points[i].lon) : i \in 1..Len(shape_points)}

\* C12: calculate_predicted_arrival_time_by_distance, for a target distance
\* not below the last known distance, within the distance table, and a
\* speed > 0, returns predicted_time_seconds = (target - last) / speed >= 0
\* and predicted_arrival_time = last timestamp + predicted_time_seconds.
C12_ArrivalByDistance ==
    (/\ Finished(ByDistance)
     /\ RLe(frame.avg.absolute_last_point_distance, R(frame.arg[1]))
     /\ ~OutsideTable(frame.avg.distance_traveled_list, R(frame.arg[1]))
     /\ RLt(RZero, frame.avg.speed))
    => /\ outcome.err = "none"
       /\ outcome.val.predicted_time_seconds =
             RDiv(RSub(R(frame.arg[1]), frame.avg.absolute_last_point_distance),
                  frame.avg.speed)
       /\ RLe(RZero, outcome.val.predicted_time_seconds)
       /\ outcome.val.predicted_arrival_time =
             RAdd(frame.avg.last_timestamp, outcome.val.predicted_time_seconds)

\* A target strictly ahead of a bus that is not at the start of the route
C12_Witness ==
    /\ Finished(ByDistance)
    /\ outcome.err = "none"
    /\ RLt(RZero, frame.avg.absolute_last_point_distance)
    /\ RLt(frame.avg.absolute_last_point_distance, R(frame.arg[1]))
    /\ RLt(RZero, outcome.val.predicted_time_seconds)

\* C13: every TravelMetrics has distance_traveled >= 0,
\* time_elapsed_seconds > 0 and average_speed = distance_traveled /
\* time_elapsed_seconds >= 0, also when the last fix's route distance is
\* below the first's.
C13_TravelMetricsInvariant ==
    "travel_metrics" \in DOMAIN frame =>
        LET tm == frame.travel_metrics
        IN  /\ RLe(RZero, tm.distance_traveled)
            /\ RLt(RZero, tm.time_elapsed_seconds)
            /\ tm.average_speed = RDiv(tm.distance_traveled, tm.time_elapsed_seconds)
            /\ RLe(RZero, tm.average_speed)

\* The last fix lies behind the first on the route
C13_Witness ==
    /\ "travel_metrics" \in DOMAIN frame
    /\ RLt(frame.absolute_distances.last_point_distance,
           frame.absolute_distances.first_point_distance)
    /\ RLt(RZero, frame.travel_metrics.average_speed)

\* lo <= x <= hi
InClosed(x, lo, hi) == RLe(lo, x) /\ RLe(x, hi)

\* C14: calculate_distance_along_route(a, b, p, d_ab) lies in [0, d_ab] for
\* every p between a and b on the segment and every d_ab >= 0; the absolute
\* distance of each fix computed by _calculate_absolute_distances lies
\* between the route distances looked up for the start and for the end of
\* its segment.
C14_ProjectionWithinBounds ==
    /\ (pc = "along_returned" /\ RLe(RZero, request.d_ab)) =>
          InClosed(outcome.val, RZero, request.d_ab)
    /\ pc = "average_speed_returned" =>
          LET sd == frame.segment_distances
              ad == frame.absolute_distances
          IN  /\ InClosed(ad.first_point_distance,
                          sd.first_segment_point_a, sd.first_segment_point_b)
              /\ InClosed(ad.last_point_distance,
                          sd.last_segment_point_a, sd.last_segment_point_b)

\* Squared distance from the target of the correct_position harness to p1
\* of segment seg
DistToP1(seg) == Norm2(VSub(request.pos, seg[1]))

\* C15: correct_position scores a zero-length candidate segment by the
\* distance from the target to its p1 and returns p1 when that segment is
\* kept; calculate_distance_along_route returns 0 when a and b coincide;
\* interpolate_point returns A when dist_a = dist_b; none of them fails on
\* such input (correct_position only with PointNotCloseError, when the best
\* candidate is beyond the tolerance).
C15_DegenerateGeometry ==
    /\ (pc = "project_returned" /\ \E seg \in frame.segments : seg[1] = seg[2]) =>
          LET flat == {seg \in frame.segments : seg[1] = seg[2]}
              max2 == RMul(request.max_distance, request.max_distance)
          IN  /\ outcome.err \in {"none", "PointNotCloseError"}
              /\ outcome.err = "PointNotCloseError" =>
                    \A seg \in flat : RLt(max2, DistToP1(seg))
              /\ outcome.err = "none" =>
                    /\ \A seg \in flat : RLe(outcome.val.dist2, DistToP1(seg))
                    /\ outcome.val.segment \in flat =>
                          /\ outcome.val.point = outcome.val.segment[1]
                          /\ outcome.val.dist2 = DistToP1(outcome.val.segment)
              /\ (flat = frame.segments /\ \E seg \in flat : RLe(DistToP1(seg), max2)) =>
                    outcome.err = "none" /\ outcome.val.segment \in flat
    /\ (pc = "along_returned" /\ request.a = request.b) =>
          outcome = Ok(RZero)
    /\ (pc = "interp_returned" /\ request.dist_a = request.dist_b
                               /\ request.dist_p = request.dist_a) =>
          outcome = Ok(<<request.lat_a, request.lon_a>>)

\* A zero-length segment was kept although another candidate has length
C15_Witness ==
    /\ pc = "project_returned"
    /\ outcome.err = "none"
    /\ outcome.val.segment[1] = outcome.val.segment[2]
    /\ outcome.val.point = outcome.val.segment[1]
    /\ ~RIsZero(outcome.val.dist2)
    /\ \E seg \in frame.segments : seg[1] # seg[2]

\* C16: the HTTP 400 exception the service raises for a target behind the
\* last known point reaches the client with status 400, never as a 500; the
\* endpoint turns every other exception of the service into a 500, answers
\* 400 for no other outcome of the service, and when the service returned a
\* result answers with the response built from it (or with a 500, when the
\* building of the response raised).
C16_BehindIsUserError ==
    (pc = "responded" /\ "service_outcome" \in DOMAIN frame) =>
        /\ frame.service_outcome.err = "HTTPException400" => outcome.err = "HTTPException400"
        /\ outcome.err = "HTTPException400" => frame.service_outcome.err = "HTTPException400"
        /\ frame.service_outcome.err \notin {"none", "HTTPException400"} =>
              outcome.err = "HTTPException500"
        /\ frame.service_outcome.err = "none" =>
              \/ frame.built.err = "none" /\ outcome = frame.built
              \/ frame.built.err # "none" /\ outcome.err = "HTTPException500"

C16_Witness ==
    /\ pc = "responded"
    /\ "service_outcome" \in DOMAIN frame
    /\ frame.service_outcome.err = "HTTPException400"
    /\ outcome.err = "HTTPException400"

\* The order of the steps of one request
StageOf(at) ==
    CASE at = "get_route_data" -> 0
      [] at = "get_bus_positions" -> 1
      [] at = "correct_positions" -> 2
      [] at = "segment_distances" -> 3
      [] at = "average_speed_returned" -> 4
      [] at = "done" -> 5
      [] at = "responded" -> 6

C17_FailedState ==
    (pc = "done" /\ outcome.err # "none") =>
        /\ outcome = Raise(frame.raised)
        /\ "failed_in" \in DOMAIN frame =>
              "avg" \notin DOMAIN frame /\ "travel_metrics" \notin DOMAIN frame

C17_NoRetryStep ==
    /\ StageOf(pc) < StageOf(pc')
    /\ outcome'.err \notin {"none", "pending"} => pc' \in {"done", "responded"}
    /\ (pc = "done" /\ outcome.err # "none") => outcome'.err # "none"

\* C17: when a step of calculate_average_speed or of a
\* calculate_predicted_* operation raises, the operation ends with that
\* same error and no result value, and no step of the request is taken
\* again: every step moves the request strictly forward, and a failed
\* request only gets its answer.
C17_FailurePropagates == []C17_FailedState /\ [][C17_NoRetryStep]_vars

\* The bracket search of a position prediction raised, after
\* calculate_average_speed had returned a speed
C17_Witness ==
    /\ Finished(Position)
    /\ frame.locals.bracket.err = "ValueError"
    /\ outcome = Raise("ValueError")

\* The local states of a request run alone, from the states S on
RECURSIVE RunAlone(_, _, _)
RunAlone(S, rows, req) ==
    LET N == S \cup UNION {RequestSteps(l, rows, req) : l \in S}
    IN  IF N = S THEN S ELSE RunAlone(N, rows, req)

\* What a request can come to when it is the only one, for each content of
\* the stores and each call
AloneStates ==
    [rows \in ConcurrentShapes, req \in ConcurrentRequests |->
        RunAlone({At("get_route_data", <<>>, NoOutcome)}, rows, req)]

C18_AsAlone ==
    \A r \in Requests : LocalOf(r) \in AloneStates[shape_points[r], request[r]]

C18_OneRequestStep ==
    \E r \in Requests :
        /\ LocalOf(3 - r)' = LocalOf(3 - r)
        /\ LocalOf(r)' \in RequestSteps(LocalOf(r), shape_points[r], request[r])

IsShapeVertex(c) ==
    \E i \in 1..Len(shape_points) :
        R(shape_points[i].lat) = c.latitude /\ R(shape_points[i].lon) = c.longitude

\* Squared distance between a fix and a point read as latitude, longitude
FixDist2(fix, c) ==
    Norm2(<<RSub(c.latitude, fix[1]), RSub(c.longitude, fix[2])>>)

\* C20: in the speed pipeline every segment end that
\* calculate_distance_along_route receives is, read as the (longitude,
\* latitude) it documents, a vertex of the shape, and every corrected point
\* it receives is, read the same way, within the tolerance of its fix;
\* every (latitude, longitude) that dist_traveled receives is a vertex of
\* the shape.
C20_CoordinateOrder ==
    pc = "average_speed_returned" =>
        LET cp == frame.corrected_positions
            pp == frame.position_pair
            max2 == R(DefaultMaxDistance * DefaultMaxDistance)
        IN  /\ \A e \in along_route_segment_ends(cp) : IsShapeVertex(along_route_reads(e))
            /\ RLe(FixDist2(pp.first_position, along_route_reads(cp.first_corrected)), max2)
            /\ RLe(FixDist2(pp.last_position, along_route_reads(cp.last_corrected)), max2)
            /\ \A c \in dist_traveled_reads(cp) : IsShapeVertex(c)

\* C21: with an estimated speed of 0, calculate_predicted_arrival_time_by_distance
\* and calculate_predicted_arrival_by_coords end with an error, never with
\* a result; where the division by the speed is reached (by distance: every
\* target not behind the last known distance, the last known distance
\* itself included; by coordinates: every target whose route distance was
\* computed) the error is ZeroDivisionError, and the endpoint answers a
\* ZeroDivisionError with status 500.
C21_ZeroSpeedNeverAnswers ==
    /\ ((Finished(ByDistance) \/ Finished(ByCoords)) /\ RIsZero(frame.avg.speed)) =>
          /\ outcome.err # "none"
          /\ (/\ frame.op = ByDistance
              /\ RLe(frame.avg.absolute_last_point_distance, R(frame.arg[1])))
             => outcome.err = "ZeroDivisionError"
          /\ (frame.op = ByCoords /\ frame.locals.target # None)
             => outcome.err = "ZeroDivisionError"
          /\ frame.op = ByCoords => outcome.err # "HTTPException400"
    /\ (/\ pc = "responded"
        /\ "service_outcome" \in DOMAIN frame
        /\ frame.service_outcome.err = "ZeroDivisionError") =>
          outcome.err = "HTTPException500"

\* A bus standing past the start of the route, asked for the distance it is at
C21_Witness ==
    /\ Finished(ByDistance)
    /\ RIsZero(frame.avg.speed)
    /\ RLt(RZero, frame.avg.absolute_last_point_distance)
    /\ R(frame.arg[1]) = frame.avg.absolute_last_point_distance
    /\ outcome.err = "ZeroDivisionError"

\* Squared distance from the target of the correct_position harness to
\* vertex i of its route
VertexDist2(i) == Norm2(VSub(request.pos, request.route[i]))

\* The segments of the harness's route that end or start at vertex i
Incident(i) ==
    {<<request.route[k], request.route[k + 1]>> :
        k \in {i - 1, i} \cap (1..(Len(request.route) - 1))}

\* C22: on a route of at least 2 vertices the candidate segments of
\* correct_position are exactly the segments that end or start at one of two
\* distinct vertices than which no other vertex is nearer to the target,
\* taken once each; they are between 1 and 4, each is a pair (route[k],
\* route[k+1]), and a call that returns gives one of them as its segment.
C22_CandidateSegments ==
    pc = "project_returned" =>
        LET n == Len(request.route)
        IN  /\ \E i, j \in 1..n :
                  /\ i # j
                  /\ \A k \in (1..n) \ {i, j} :
                        RLe(VertexDist2(i), VertexDist2(k)) /\ RLe(VertexDist2(j), VertexDist2(k))
                  /\ frame.segments = Incident(i) \cup Incident(j)
            /\ Cardinality(frame.segments) \in 1..4
            /\ \A seg \in frame.segments :
                  \E k \in 1..(n - 1) : seg = <<request.route[k], request.route[k + 1]>>
            /\ outcome.err \in {"none", "PointNotCloseError"}
            /\ outcome.err = "none" => outcome.val.segment \in frame.segments

\* Four candidates: the two nearest vertices are inner vertices of the route
\* and not neighbours
C22_Witness ==
    /\ pc = "project_returned"
    /\ outcome.err = "none"
    /\ Cardinality(frame.segments) = 4

\* Points p1 + t * (p2 - p1), 0 <= t <= 1, of segment seg: those at the
\* multiples t = k / b of 1 / b, b the squared length of the segment (an
\* integer for ends on the grid).  The foot of the perpendicular from a
\* point of the grid is at t = c / b with c an integer, hence the point of
\* the segment nearest to a point of the grid is among them.
PointsOfSegment(seg) ==
    LET v == VSub(seg[2], seg[1])
        b == Norm2(v)[1]
    IN  IF b = 0 THEN {seg[1]}
        ELSE {VAdd(seg[1], VScale(Rat(k, b), v)) : k \in 0..b}

\* C23: the distance correct_position returns is the distance from the
\* target to the returned point, no point of any candidate segment is
\* nearer to the target, and the returned point is a point p1 + t * (p2 - p1),
\* 0 <= t <= 1, of the returned segment, which is a candidate; this in every
\* order of visiting the candidates.
C23_MinimumScore ==
    (pc = "project_returned" /\ outcome.err = "none") =>
        LET best == outcome.val
        IN  /\ best.segment \in frame.segments
            /\ best.point \in PointsOfSegment(best.segment)
            /\ best.dist2 = Norm2(VSub(request.pos, best.point))
            /\ \A seg \in frame.segments :
                  \A q \in PointsOfSegment(seg) :
                     RLe(best.dist2, Norm2(VSub(request.pos, q)))
            /\ Between(best.segment[1][1], best.point[1], best.segment[2][1])
            /\ Between(best.segment[1][2], best.point[2], best.segment[2][2])

\* The target is off the route, its nearest point is inside one candidate
\* and another candidate is farther away
C23_Witness ==
    /\ pc = "project_returned"
    /\ outcome.err = "none"
    /\ ~RIsZero(outcome.val.dist2)
    /\ outcome.val.point \notin {outcome.val.segment[1], outcome.val.segment[2]}
    /\ \E seg \in frame.segments :
          \A q \in PointsOfSegment(seg) :
             RLt(outcome.val.dist2, Norm2(VSub(request.pos, q)))

\* The vertices of the request's shape at route distance d
VerticesAt(d) ==
    {Pt(shape_points[i].lat, shape_points[i].lon) :
        i \in {k \in 1..Len(shape_points) : R(shape_points[k].dist) = d}}

\* C24: when find_surrounding_distances has returned (left, right) inside
\* calculate_predicted_position or
\* calculate_predicted_arrival_time_by_distance, left <= target <= right,
\* the operation does not end with interpolate_point's ValueError, and the
\* coordinates it returns lie between those of a vertex at distance left
\* and a vertex at distance right.
C24_BracketThenInterpolate ==
    ((Finished(Position) \/ Finished(ByDistance)) /\ frame.locals.bracket.err = "none") =>
        LET left == frame.locals.bracket.val[1]
            right == frame.locals.bracket.val[2]
        IN  /\ RLe(left, frame.locals.target) /\ RLe(frame.locals.target, right)
            /\ outcome.err # "ValueError"
            /\ outcome.err = "none" =>
                  \E A \in VerticesAt(left), B \in VerticesAt(right) :
                     /\ Between(A[1], outcome.val.latitude, B[1])
                     /\ Between(A[2], outcome.val.longitude, B[2])

\* A target distance strictly inside a segment, reached by a moving bus
C24_Witness ==
    /\ Finished(ByDistance)
    /\ frame.locals.bracket.err = "none"
    /\ RLt(frame.locals.bracket.val[1], frame.locals.target)
    /\ RLt(frame.locals.target, frame.locals.bracket.val[2])
    /\ outcome.err = "none"
    /\ <<outcome.val.latitude, outcome.val.longitude>> \notin
          VerticesAt(frame.locals.bracket.val[1]) \cup VerticesAt(frame.locals.bracket.val[2])

\* A lookup whose answer is held in f answered None or an empty list, or a
\* fix history too short to give two fixes
LookupFailedIn(f) ==
    \/ "bus_shape" \in DOMAIN f /\ f.bus_shape = None
    \/ "shape_points" \in DOMAIN f /\ f.shape_points = <<>>
    \/ "bus_positions" \in DOMAIN f /\ Len(f.bus_positions) < 2
    \/ /\ "segment_distances" \in DOMAIN f
       /\ None \in {f.segment_distances.first_segment_point_a,
                    f.segment_distances.first_segment_point_b,
                    f.segment_distances.last_segment_point_a,
                    f.segment_distances.last_segment_point_b}
    \/ "point_a" \in DOMAIN f /\ None \in {f.point_a, f.point_b}
    \/ "left_point" \in DOMAIN f /\ None \in {f.left_point, f.right_point}

\* d is the route distance that route_data, as _get_route_data returned it,
\* has for a vertex at point pt
IsDistanceOf(route_data, pt, d) ==
    \E i \in 1..Len(route_data.route_coordinates) :
        route_data.route_coordinates[i] = pt /\ route_data.distance_traveled_list[i] = d

\* C25: a request one of whose lookups (shape, shape points, fix history,
\* dist_traveled of a segment end, get_coordinates of a bracket end) has
\* answered None, an empty list or fewer than 2 fixes ends with an error
\* and answers the client with an error; every route distance that enters
\* a speed or a prediction is the one stored for the vertex asked for, and
\* every point interpolated between is a stored vertex at the distance
\* asked for, never a default.
C25_FailedLookupNeverAnswers ==
    /\ (LookupFailedIn(frame) \/ ("locals" \in DOMAIN frame /\ LookupFailedIn(frame.locals))) =>
          pc = "done" /\ outcome.err \notin {"none", "pending"}
    /\ (/\ pc = "responded"
        /\ "service_outcome" \in DOMAIN frame
        /\ frame.service_outcome.err # "none") =>
          outcome.err \in {"HTTPException400", "HTTPException500"}
    /\ pc = "average_speed_returned" =>
          LET sd == frame.segment_distances
              cp == frame.corrected_positions
          IN  /\ IsDistanceOf(frame.route_data, cp.first_segment[1], sd.first_segment_point_a)
              /\ IsDistanceOf(frame.route_data, cp.first_segment[2], sd.first_segment_point_b)
              /\ IsDistanceOf(frame.route_data, cp.last_segment[1], sd.last_segment_point_a)
              /\ IsDistanceOf(frame.route_data, cp.last_segment[2], sd.last_segment_point_b)
    /\ (Finished(ByCoords) /\ outcome.err = "none") =>
          /\ IsDistanceOf(frame.locals.route_data, frame.locals.segment_to_predict[1],
                          frame.locals.point_a)
          /\ IsDistanceOf(frame.locals.route_data, frame.locals.segment_to_predict[2],
                          frame.locals.point_b)
    /\ ((Finished(Position) \/ Finished(ByDistance)) /\ outcome.err = "none") =>
          /\ frame.locals.left_point \in VerticesAt(frame.locals.bracket.val[1])
          /\ frame.locals.right_point \in VerticesAt(frame.locals.bracket.val[2])

\* The row of a segment end was lost after the route had been read: its
\* dist_traveled lookup found nothing
C25_Witness ==
    /\ pc = "done"
    /\ "segment_distances" \in DOMAIN frame
    /\ frame.segment_distances.first_segment_point_a # None
    /\ frame.segment_distances.last_segment_point_b = None
    /\ outcome.err = "TypeError"

\* C26: when calculate_predicted_arrival_by_coords has read the route a
\* second time, the shape it projects the target on is the shape whose id
\* calculate_average_speed returned, the one its dist_traveled lookups are
\* made for.
C26_OneShapePerRequest ==
    (Finished(ByCoords) /\ "route_data" \in DOMAIN frame.locals) =>
        frame.locals.route_data.bus_shape = frame.avg.bus_shape

\* The correct_position call c returned a vertex V at which two of its
\* candidate segments meet, (U, V) and (V, W)
MeetingAt(c, V) ==
    {pair \in c.segments \X c.segments :
        pair[1] # pair[2] /\ pair[1][2] = V /\ pair[2][1] = V}

TieAtVertex(c) ==
    c.out.err = "none" /\ MeetingAt(c, c.out.val.point) # {}

\* The least squared distance from pos to a point of segment seg
LeastDist2(seg, pos) ==
    LET ds == {Norm2(VSub(pos, q)) : q \in PointsOfSegment(seg)}
    IN  CHOOSE d \in ds : \A e \in ds : RLe(d, e)

C27_TieState ==
    (pc = "segment_distances") =>
        \A i \in DOMAIN frame.calls :
            LET c == frame.calls[i]
            IN  TieAtVertex(c) =>
                  \A pair \in MeetingAt(c, c.out.val.point) :
                     /\ LeastDist2(pair[1], c.pos) = c.out.val.dist2
                     /\ LeastDist2(pair[2], c.pos) = c.out.val.dist2

C27_TieStep ==
    (pc = "segment_distances" /\ pc' = "average_speed_returned") =>
        /\ TieAtVertex(frame.calls[1]) =>
              IsDistanceOf(frame.route_data, frame.calls[1].out.val.point,
                           frame'.absolute_distances.first_point_distance)
        /\ TieAtVertex(frame.calls[2]) =>
              IsDistanceOf(frame.route_data, frame.calls[2].out.val.point,
                           frame'.absolute_distances.last_point_distance)

C28_PositionAtOrAhead ==
    /\ pc = "average_speed_returned" =>
          LET last_fix == frame.bus_positions[Len(frame.bus_positions)]
          IN  frame.avg.last_timestamp = R(last_fix.time)
    /\ (/\ pc = "done"
        /\ outcome.err = "none"
        /\ frame.op = "calculate_predicted_position") =>
          LET seconds == request.arg[1]
          IN  /\ seconds \in 1..3600
              /\ frame.arg = <<seconds>>
              /\ ~RLt(outcome.val.distance_traveled,
                      outcome.val.last_known_distance_traveled)
              /\ outcome.val.last_known_distance_traveled =
                    frame.avg.absolute_last_point_distance
              /\ outcome.val.target_arrival_time =
                    RAdd(frame.avg.last_timestamp, R(seconds))
              /\ RLt(frame.avg.last_timestamp, outcome.val.target_arrival_time)
    /\ (/\ pc = "responded"
        /\ request.endpoint = "predict_future_position"
        /\ outcome.err = "none") =>
          LET result == frame.service_outcome.val
          IN  /\ request.arg[1] \in 1..3600
              /\ outcome.val.target_seconds_to_arrival = request.arg[1]
              /\ outcome.val.predicted_distance_traveled = result.distance_traveled
              /\ outcome.val.last_known_distance_traveled =
                    result.last_known_distance_traveled
              /\ outcome.val.target_arrival_time = result.target_arrival_time
              /\ ~RLt(outcome.val.predicted_distance_traveled,
                      outcome.val.last_known_distance_traveled)

\* A response with a position strictly ahead of the last known one
C28_Witness ==
    /\ pc = "responded"
    /\ request.endpoint = "predict_future_position"
    /\ outcome.err = "none"
    /\ RLt(outcome.val.last_known_distance_traveled,
           outcome.val.predicted_distance_traveled)

\* The requests C29 is about: a bus_id whose first six characters are not
\* b, u, s, e, s, ':' and, at the position endpoint, a number of seconds
\* outside 1..3600
Refused(req) ==
    \/ Len(req.bus_id) < 6
    \/ \E i \in 1..6 : req.bus_id[i] # <<"b", "u", "s", "e", "s", ":">>[i]
    \/ /\ req.endpoint = "predict_future_position"
       /\ req.arg[1] \notin 1..3600

C29_NothingCalledWhenRefused ==
    /\ Refused(request) => pc \in {"endpoint_called", "responded"}
    /\ (pc = "responded" /\ Refused(request)) =>
          /\ outcome = Raise("HTTPException400")
          /\ DOMAIN frame = {"rejected"}
    /\ (pc = "responded" /\ ~Refused(request)) => "service_outcome" \in DOMAIN frame

C29_RefusedAtOnce ==
    (pc = "endpoint_called" /\ Refused(request)) =>
        /\ pc' = "responded"
        /\ outcome' = Raise("HTTPException400")

\* C29: validation comes before computation.  Every prediction endpoint
\* answers HTTP 400 to a bus_id that does not start with "buses:", and the
\* position endpoint answers HTTP 400 to a prediction_time_seconds <= 0 or
\* > 3600; the answer is the endpoint's first step, and a refused request is
\* never at a step of a service operation or of a lookup.  A request that is
\* not refused is answered from the outcome of the service.
C29_ValidationFirst ==
    []C29_NothingCalledWhenRefused /\ [][C29_RefusedAtOnce]_vars

\* A request with a good bus_id refused for its number of seconds
C29_Witness ==
    /\ pc = "responded"
    /\ frame = [rejected |-> "prediction_time_seconds"]
    /\ outcome.err = "HTTPException400"

\* The locals of calculate_average_speed that exist only once
\* correct_position or a dist_traveled lookup has been called
ProjectionLocals ==
    {"calls", "corrected_positions", "segment_distances", "absolute_distances",
     "travel_metrics", "avg"}

C30_UsableInputs ==
    /\ pc \in {"get_bus_positions", "correct_positions", "segment_distances",
               "average_speed_returned"} =>
          /\ frame.route_data.bus_shape # None
          /\ Len(frame.route_data.route_coordinates) >= 1
    /\ pc \in {"correct_positions", "segment_distances", "average_speed_returned"} =>
          Len(frame.bus_positions) >= 2
    /\ pc \in {"get_route_data", "get_bus_positions", "correct_positions"} =>
          DOMAIN frame \cap ProjectionLocals = {}
    /\ (/\ pc = "done"
        /\ "failed_in" \in DOMAIN frame
        /\ frame.failed_in \in {"_get_route_data", "_get_bus_positions"}) =>
          /\ outcome.err # "none"
          /\ DOMAIN frame \cap ProjectionLocals = {}

C30_LookupStep ==
    /\ pc = "get_route_data" =>
          \/ /\ pc' = "get_bus_positions"
             /\ shape_points # <<>>
          \/ /\ pc' = "done"
             /\ frame'.failed_in = "_get_route_data"
             /\ frame'.bus_shape = None \/ frame'.shape_points = <<>>
             /\ outcome'.err = "ValueError"
    /\ pc = "get_bus_positions" =>
          \/ /\ pc' = "correct_positions"
             /\ Len(frame'.bus_positions) >= 2
          \/ /\ pc' = "done"
             /\ frame'.failed_in = "_get_bus_positions"
             /\ Len(frame'.bus_positions) < 2
             /\ outcome'.err = "ValueError"
    /\ (DOMAIN frame \cap ProjectionLocals = {} /\ DOMAIN frame' \cap ProjectionLocals # {}) =>
          pc = "correct_positions"

\* C30: calculate_average_speed needs usable inputs before it projects
\* anything.  With no shape found for the bus, with a shape that has no
\* route points, or with fewer than 2 fixes it raises an error at the lookup
\* concerned; correct_position and the dist_traveled lookups are called only
\* from the step that follows both lookups, with a shape, at least one route
\* point and at least 2 fixes, and a request that failed at a lookup has no
\* local of theirs.
C30_InputsBeforeProjection ==
    []C30_UsableInputs /\ [][C30_LookupStep]_vars

\* A history of a single fix: the request fails at _get_bus_positions
C30_Witness ==
    /\ pc = "done"
    /\ "failed_in" \in DOMAIN frame
    /\ frame.failed_in = "_get_bus_positions"
    /\ Len(frame.bus_positions) = 1
    /\ outcome.err = "ValueError"

\* A shape without route points
C30_EmptyShape ==
    /\ pc = "done"
    /\ "failed_in" \in DOMAIN frame
    /\ frame.failed_in = "_get_route_data"
    /\ frame.bus_shape # None
    /\ frame.shape_points = <<>>

\* No shape found
C30_NoShape ==
    /\ pc = "done"
    /\ "failed_in" \in DOMAIN frame
    /\ frame.failed_in = "_get_route_data"
    /\ frame.bus_shape = None

=============================================================================
